---------------------------- MODULE Spec2Model ----------------------------
(***************************************************************************)
(* CloutCheck AI: the aggregation and scoring engine.                      *)
(*                                                                         *)
(* The model follows analyze_influencer_posts (run_full_pipeline.py) from  *)
(* the point where the aggregate statistics of one creator are known, and  *)
(* BrandFitAnalyzer (brand_analyzer.py).                                   *)
(*                                                                         *)
(* Numbers.  The program computes with floats.  The model is fixed-point:  *)
(* a quantity q of the program is the integer q * 10000.  A sub-score in   *)
(* [0,1] is an integer in 0..10000, a 0-100 score an integer in            *)
(* 0..1000000.  With this resolution round(x, 3), round(x, 2), round(x, 1) *)
(* and the ":.2f" format are real roundings, and the weighted sum of the   *)
(* reputation score is exact.                                              *)
(***************************************************************************)
EXTENDS Integers, Sequences, FiniteSets, TLC

\* fixed-point image of 1.0 (one unit of the model is 0.0001)
One == 100 * 100

\* fixed-point image of the number n of the source (n an integer literal)
Pts(n) == n * One

\* largest number of visual signals (images plus videos) of one creator
MaxImages == 3

-----------------------------------------------------------------------------
(* Python helpers *)

\* n / d rounded to the nearest integer, ties to the even neighbour (d > 0):
\* the rounding of Python's round() and of the "f" format
RoundHalfEven(n, d) ==
    LET q == n \div d
        r == n % d
    IN  IF 2 * r < d THEN q
        ELSE IF 2 * r > d THEN q + 1
        ELSE IF q % 2 = 0 THEN q ELSE q + 1

\* round(x, 3)
round3(x) == 10 * RoundHalfEven(x, 10)

\* round(x, 2)
round2(x) == 100 * RoundHalfEven(x, 100)

\* round(x, 1)
round1(x) == 1000 * RoundHalfEven(x, 1000)

\* f"{x:.2f}"
fmt2f(x) == 100 * RoundHalfEven(x, 100)

\* round(num / den, 3) for two non-negative integers of the program
round3_ratio(num, den) == 10 * RoundHalfEven(num * 1000, den)

Max2(a, b) == IF a >= b THEN a ELSE b

Min2(a, b) == IF a <= b THEN a ELSE b


-----------------------------------------------------------------------------
(* The aggregate statistics of one creator.                                *)
(*                                                                         *)
(* A summary holds the unrounded locals of analyze_influencer_posts after  *)
(* "Calculate aggregate scores": the three means and three maxima over     *)
(* text_results, the mean nsfw_score over image_results, len(image_results)*)
(* and nsfw_count.                                                         *)

\* sample values of avg_toxicity (0.5 lies on a brand's threshold, 0.8 above)
ToxicityLevels == {0, 5000, 8000, 10000}

\* sample values of avg_spam (0.0001 puts a score just below a boundary)
SpamLevels == {0, 1, 10000}

\* sample values of avg_sentiment (0.5004 rounds to 0.5, 0.501 exceeds it)
SentimentLevels == {-10000, 0, 5004, 5010}

\* sample values of avg_nsfw when there is at least one visual signal
NsfwLevels == {0, 9000, 10000}

\* sample values of the maximum identity_attack (0.10, 0.11, 0.99)
IdentityLevels == {0, 1000, 1100, 9900}

\* sample values of the maximum insult
InsultLevels == {0, 1000, 1100}

\* sample values of the maximum severe_toxicity (0.1004 rounds to 0.1)
SevereLevels == {0, 1004, 9000}

\* The summaries analyze_influencer_posts can compute: with no visual
\* signal avg_nsfw and nsfw_count are 0 (lines 160-161); a signal counted
\* as NSFW has a positive score, so a positive count has a positive mean.
Summaries ==
    { s \in [ avg_toxicity        : ToxicityLevels,
              avg_sentiment       : SentimentLevels,
              avg_spam            : SpamLevels,
              avg_nsfw            : NsfwLevels,
              max_identity_attack : IdentityLevels,
              max_insult          : InsultLevels,
              max_severe          : SevereLevels,
              images_analyzed     : 0..MaxImages,
              nsfw_count          : 0..MaxImages ] :
        /\ s.nsfw_count <= s.images_analyzed
        /\ (s.images_analyzed = 0 => s.avg_nsfw = 0)
        /\ (s.nsfw_count > 0 => s.avg_nsfw > 0) }

-----------------------------------------------------------------------------
(* Reputation Scorer: run_full_pipeline.py *)

\* variant: the toxicity penalty with the weight of the spam penalty
toxicity_penalty_weight20(s) == s.avg_toxicity * 20

toxicity_penalty(s) == s.avg_toxicity * 30

spam_penalty(s) == s.avg_spam * 20

nsfw_penalty(s) == s.avg_nsfw * 30

\* variant: a bonus proportional to the sentiment, negative sentiment included
sentiment_bonus_signed(s) == s.avg_sentiment * 10

sentiment_bonus(s) == Max2(0, s.avg_sentiment) * 10

\* variant: the step taken at 0.1 itself (>= for >)
severe_penalty_inclusive(s) ==
    (IF s.max_identity_attack >= 1000 THEN Pts(20) ELSE 0)
    + (IF s.max_insult >= 1000 THEN Pts(10) ELSE 0)
    + (IF s.max_severe >= 1000 THEN Pts(30) ELSE 0)

severe_penalty(s) ==
    (IF s.max_identity_attack > 1000 THEN Pts(20) ELSE 0)
    + (IF s.max_insult > 1000 THEN Pts(10) ELSE 0)
    + (IF s.max_severe > 1000 THEN Pts(30) ELSE 0)

\* variant: the clamp without its lower bound
clamp_100_only(x) == Min2(Pts(100), x)

\* max(0, min(100, x))
clamp_0_100(x) == Max2(0, Min2(Pts(100), x))

\* the local reputation_score (unrounded)
reputation_score_of(s) ==
    clamp_0_100(
        Pts(100) - toxicity_penalty(s) - spam_penalty(s) - nsfw_penalty(s)
                 - severe_penalty(s) + sentiment_bonus(s))

\* variant: exclusive lower bounds (> for >=)
get_rating_exclusive(score) ==
    IF score > Pts(90) THEN "Excellent"
    ELSE IF score > Pts(75) THEN "Good"
    ELSE IF score > Pts(60) THEN "Fair"
    ELSE IF score > Pts(40) THEN "Poor"
    ELSE "Very Poor"

get_rating(score) ==
    IF score >= Pts(90) THEN "Excellent"
    ELSE IF score >= Pts(75) THEN "Good"
    ELSE IF score >= Pts(60) THEN "Fair"
    ELSE IF score >= Pts(40) THEN "Poor"
    ELSE "Very Poor"

\* the dictionary "results" compiled from the aggregates (before brand_fits)
compile_results(s) ==
    [ text_analysis |->
        [ avg_toxicity        |-> round3(s.avg_toxicity),
          avg_sentiment       |-> round3(s.avg_sentiment),
          avg_spam_score      |-> round3(s.avg_spam),
          max_identity_attack |-> round3(s.max_identity_attack),
          max_insult          |-> round3(s.max_insult),
          max_severe_toxicity |-> round3(s.max_severe) ],
      image_analysis |->
        [ images_analyzed   |-> s.images_analyzed,
          avg_nsfw_score    |-> round3(s.avg_nsfw),
          nsfw_images_found |-> s.nsfw_count,
          nsfw_ratio        |-> IF s.images_analyzed > 0
                                THEN round3_ratio(s.nsfw_count, s.images_analyzed)
                                ELSE 0 ],
      reputation_score |-> round2(reputation_score_of(s)),
      rating           |-> get_rating(reputation_score_of(s)) ]

-----------------------------------------------------------------------------
(* Brand profiles: the JSON files of brands/.                              *)
(*                                                                         *)
(* A profile is the dictionary json.load returns.  safety_thresholds maps  *)
(* some of the five threshold keys to numbers; a key that is absent is     *)
(* read with the default 1.0.                                              *)

\* the brand files of brands/
BrandFiles == {"strict", "family"}

\* brand_profile of the analyzer constructed from brand file b
BrandProfile(b) ==
    IF b = "strict"
    THEN [ name |-> "strict",
           safety_thresholds |->
               [ max_toxicity        |-> 5000,
                 max_identity_attack |-> 1000,
                 max_insult          |-> 1000,
                 max_severe_toxicity |-> 1000,
                 max_nsfw            |-> 9000 ],
           excluded_topics |-> {} ]
    ELSE [ name |-> "family",
           safety_thresholds |->
               [ max_toxicity        |-> 6000,
                 max_severe_toxicity |-> 5000,
                 max_nsfw            |-> 7000 ],
           excluded_topics |-> {"gambling", "alcohol"} ]

\* d.get(key, default) of a Python dictionary
dict_get(d, key, default) == IF key \in DOMAIN d THEN d[key] ELSE default

-----------------------------------------------------------------------------
(* Brand Fit Analyzer: brand_analyzer.py                                    *)
(*                                                                         *)
(* A risk string is the tuple of its template and the values formatted     *)
(* into it; a reason likewise.                                             *)

\* variant: a check that also triggers on equality (>= for >)
safety_step_inclusive(acc, value, limit, penalty, risk) ==
    IF value >= limit
    THEN [ score |-> acc.score - penalty, risks |-> Append(acc.risks, risk) ]
    ELSE acc

\* the state of _check_safety after the check of one metric against its
\* threshold: acc is [score, risks]
safety_step(acc, value, limit, penalty, risk) ==
    IF value > limit
    THEN [ score |-> acc.score - penalty, risks |-> Append(acc.risks, risk) ]
    ELSE acc

\* variant: the safety score returned without its floor
safety_unfloored(score) == score

\* max(0.0, score): the floor of the returned safety score
safety_floor(score) == Max2(0, score)

_check_safety(brand_profile, results) ==
    LET thresholds == dict_get(brand_profile, "safety_thresholds", << >>)
        ta == results.text_analysis
        ia == results.image_analysis
        a0 == [ score |-> Pts(100), risks |-> << >> ]
        a1 == safety_step(a0, ta.avg_toxicity,
                  dict_get(thresholds, "max_toxicity", One), Pts(30),
                  << "High average toxicity", fmt2f(ta.avg_toxicity),
                     dict_get(thresholds, "max_toxicity", One) >>)
        a2 == safety_step(a1, ta.max_identity_attack,
                  dict_get(thresholds, "max_identity_attack", One), Pts(40),
                  << "Identity attack detected", fmt2f(ta.max_identity_attack),
                     dict_get(thresholds, "max_identity_attack", One) >>)
        a3 == safety_step(a2, ta.max_insult,
                  dict_get(thresholds, "max_insult", One), Pts(20),
                  << "Insulting content detected", fmt2f(ta.max_insult),
                     dict_get(thresholds, "max_insult", One) >>)
        a4 == safety_step(a3, ta.max_severe_toxicity,
                  dict_get(thresholds, "max_severe_toxicity", One), Pts(50),
                  << "Severe toxicity detected", fmt2f(ta.max_severe_toxicity),
                     dict_get(thresholds, "max_severe_toxicity", One) >>)
        a5 == safety_step(a4, ia.avg_nsfw_score,
                  dict_get(thresholds, "max_nsfw", One), Pts(40),
                  << "NSFW content detected", fmt2f(ia.avg_nsfw_score) >>)
        a6 == safety_step(a5, ia.nsfw_images_found, 0,
                  Pts(20) * ia.nsfw_images_found,
                  << "Found NSFW images", ia.nsfw_images_found >>)
    IN  [ score |-> safety_floor(a6.score), risks |-> a6.risks ]

_check_excluded_topics(brand_profile, results) ==
    LET excluded == dict_get(brand_profile, "excluded_topics", {})
    IN  [ score |-> Pts(100), risks |-> << >> ]

\* variant: the bonus awarded at 0.5 itself (>= for >)
_check_values_alignment_inclusive(results) ==
    IF results.text_analysis.avg_sentiment >= 5000
    THEN [ score |-> Pts(5), matches |-> << "Positive sentiment" >> ]
    ELSE [ score |-> 0, matches |-> << >> ]

_check_values_alignment(results) ==
    IF results.text_analysis.avg_sentiment > 5000
    THEN [ score |-> Pts(5), matches |-> << "Positive sentiment" >> ]
    ELSE [ score |-> 0, matches |-> << >> ]

\* variant: exclusive lower bounds (> for >=)
fit_rating_exclusive(score) ==
    IF score > Pts(90) THEN "Perfect Match"
    ELSE IF score > Pts(75) THEN "Good Fit"
    ELSE IF score > Pts(60) THEN "Moderate Risk"
    ELSE IF score > Pts(40) THEN "High Risk"
    ELSE "Unsafe / Do Not Partner"

\* the rating of a fit score
fit_rating(score) ==
    IF score >= Pts(90) THEN "Perfect Match"
    ELSE IF score >= Pts(75) THEN "Good Fit"
    ELSE IF score >= Pts(60) THEN "Moderate Risk"
    ELSE IF score >= Pts(40) THEN "High Risk"
    ELSE "Unsafe / Do Not Partner"

\* variant: the clamp without its upper bound
clamp_fit_floor_only(score) == Max2(0, score)

\* "Clamp score": max(0.0, min(100.0, score))
clamp_fit(score) == Max2(0, Min2(Pts(100), score))

analyze_fit(brand_profile, influencer_results) ==
    LET safety == _check_safety(brand_profile, influencer_results)
        topic  == _check_excluded_topics(brand_profile, influencer_results)
        values == _check_values_alignment(influencer_results)
        s0 == Pts(100)
        s1 == IF safety.risks # << >> THEN s0 - (Pts(100) - safety.score) ELSE s0
        s2 == IF topic.risks # << >> THEN s1 - (Pts(100) - topic.score) ELSE s1
        s3 == IF values.matches # << >> THEN s2 + values.score ELSE s2
        score == clamp_fit(s3)
    IN  [ brand_name   |-> brand_profile.name,
          fit_score    |-> round1(score),
          rating       |-> fit_rating(score),
          risk_factors |-> (IF safety.risks # << >> THEN safety.risks ELSE << >>)
                           \o (IF topic.risks # << >> THEN topic.risks ELSE << >>),
          reasons      |->
              (IF safety.risks # << >>
               THEN << << "Safety violations detected",
                          round1(Pts(100) - safety.score) >> >>
               ELSE << >>)
              \o (IF topic.risks # << >>
                  THEN << << "Excluded topics found",
                             round1(Pts(100) - topic.score) >> >>
                  ELSE << >>)
              \o (IF values.matches # << >>
                  THEN << << "Values alignment bonus", round1(values.score) >> >>
                  ELSE << >>),
          details      |-> [ safety_score |-> safety.score,
                             topic_score  |-> topic.score,
                             values_score |-> values.score ] ]

-----------------------------------------------------------------------------
(* One run of analyze_influencer_posts from "Calculate aggregate scores"   *)
(* to its return.                                                          *)

VARIABLES
    pc,                \* position in analyze_influencer_posts
    summary,           \* the aggregate locals (avg_toxicity, ..., nsfw_count)
    reputation_score,  \* the local reputation_score (unrounded)
    results,           \* the dictionary "results"
    brand_fits,        \* the list brand_fits
    brand_files,       \* the brand files the glob has not yet yielded
    analyzer,          \* the BrandFitAnalyzer of the current loop iteration
    brands_dir,        \* the directory brands/: its *.json files, in the
                       \* order in which a glob yields them
    text_results,      \* the list text_results
    image_results,     \* the list image_results
    image_analyzer,    \* the ImageNSFWAnalyzer: classifier loaded?, threshold
    image_call,        \* the arguments of a call of analyze_image
    image_result,      \* what that call returned
    results_file,      \* the file results/<username>_analysis.json
    rescored,          \* the runs of run_brand_analysis since brands/ changed
    config,            \* what config.py reads: the API token, the weights
    warned,            \* config.py has printed "Warning: Configuration errors"
    batch,             \* main: json_files, as creator handles
    attempted,         \* main: the creators the loop has begun, in order
    username,          \* main: the creator being processed
    csv,               \* the creators with a file data/processed/<u>_processed.csv
    stage_log,         \* the stages of main completed, as << creator, stage >>
    raised,            \* the stages that raised, as << creator, stage >>
    media,             \* the files in dataset/images and dataset/videos
    population,        \* the media files analysed, as << creator, file >>
    saved,             \* the creators with a file results/<u>_analysis.json
    cwd,               \* the creators with a file <u>_posts.json in the
                       \* working directory
    raw,               \* the files of data/raw, as << creator, origin >>
    preprocessed,      \* the calls of preprocess_apify_json that returned:
                       \* the creator, the origin of the file read, and
                       \* whether it held a valid post
    downloads,         \* the creators in whose stage 2 convert_media ran
    df,                \* analyze_influencer_posts: the rows of the CSV
    image_files,       \* analyze_influencer_posts: the list image_files
    video_files,       \* analyze_influencer_posts: the list video_files
    idx,               \* the items of the current loop already iterated
    vid_result,        \* analyze_influencer_posts: the local vid_result
    CLEANUP_MODE       \* config.CLEANUP_MODE

\* the lists of signals the aggregates are computed from
collectVars == << text_results, image_results >>

\* one call of ImageNSFWAnalyzer.analyze_image
imageVars == << image_analyzer, image_call, image_result >>

\* the persisted result of the creator
fileVars == << results_file, rescored >>

\* the JSON files main moves and reads, and the downloader
runVars == << cwd, raw, preprocessed, downloads >>

\* the loops of analyze_influencer_posts over the rows, images and videos
itemVars == << df, image_files, video_files, idx, vid_result, CLEANUP_MODE >>

\* the state of main and of the directories it works on
batchVars ==
    << config, warned, batch, attempted, username, csv, stage_log, raised,
       media, population, saved, runVars, itemVars >>

\* the state outside analyze_influencer_posts
outerVars == << fileVars, batchVars >>

vars == << pc, summary, reputation_score, results, brand_fits, brand_files,
           analyzer, brands_dir, collectVars, imageVars, outerVars >>

\* the value of a local that is not yet bound, of a file that does not exist
Unbound == [ unbound |-> TRUE ]

\* nothing has been written by main
OuterIdle ==
    /\ results_file = Unbound /\ rescored = 0
    /\ config = Unbound /\ warned = FALSE
    /\ batch = << >> /\ attempted = << >> /\ username = Unbound
    /\ csv = {} /\ stage_log = {} /\ raised = {}
    /\ media = {} /\ population = {} /\ saved = {}
    /\ cwd = {} /\ raw = {} /\ preprocessed = {} /\ downloads = {}
    /\ df = << >> /\ image_files = << >> /\ video_files = << >>
    /\ idx = 0 /\ vid_result = Unbound /\ CLEANUP_MODE = "immediate"

\* the sequences that list every element of the set S once
Listings(S) ==
    { q \in [ 1..Cardinality(S) -> S ] :
        \A i, j \in 1..Cardinality(S) : q[i] = q[j] => i = j }

Init ==
    /\ pc = "Score"
    /\ summary \in Summaries
    /\ reputation_score = -1
    /\ results = Unbound
    /\ brand_fits = << >>
    /\ brand_files = << >>
    /\ analyzer = Unbound
    /\ brands_dir \in Listings(BrandFiles)
    /\ text_results = Unbound /\ image_results = Unbound
    /\ image_analyzer = Unbound /\ image_call = Unbound /\ image_result = Unbound
    /\ OuterIdle

\* lines 169-221: the reputation score and the results dictionary
Score ==
    /\ pc = "Score"
    /\ reputation_score' = reputation_score_of(summary)
    /\ results' = compile_results(summary)
    /\ brand_fits' = << >>
    /\ brand_files' = brands_dir
    /\ pc' = "FitAllBrands"
    /\ UNCHANGED << summary, analyzer, brands_dir, collectVars, imageVars,
                    outerVars >>

\* variant: an analyzer whose list of risk factors is shared by all
\* analyzers, so that a fit also lists the risks found for earlier brands
FitBrand_shared_risks(b) ==
    /\ pc = "FitAllBrands"
    /\ brand_files # << >>
    /\ b = Head(brand_files)
    /\ analyzer' = [ brand_profile |-> BrandProfile(b) ]
    /\ LET fit == analyze_fit(BrandProfile(b), results)
           earlier == IF brand_fits = << >> THEN << >>
                      ELSE brand_fits[Len(brand_fits)].risk_factors
       IN  brand_fits' =
               Append(brand_fits,
                      [fit EXCEPT !.risk_factors = earlier \o fit.risk_factors])
    /\ brand_files' = Tail(brand_files)
    /\ UNCHANGED << pc, summary, reputation_score, results, brands_dir,
                    collectVars, imageVars, outerVars >>

\* lines 227-231: one iteration of the loop over brands/*.json for a brand
\* file that loads: the analyzer is constructed and analyze_fit(results) is
\* appended.  The glob yields the files in the order of the directory.
FitBrand(b) ==
    /\ pc = "FitAllBrands"
    /\ brand_files # << >>
    /\ b = Head(brand_files)
    /\ analyzer' = [ brand_profile |-> BrandProfile(b) ]
    /\ brand_fits' = Append(brand_fits, analyze_fit(BrandProfile(b), results))
    /\ brand_files' = Tail(brand_files)
    /\ UNCHANGED << pc, summary, reputation_score, results, brands_dir,
                    collectVars, imageVars, outerVars >>

\* lines 235-238: results["brand_fits"] = brand_fits; return results
Return ==
    /\ pc = "FitAllBrands"
    /\ brand_files = << >>
    /\ results' = results @@ [ brand_fits |-> brand_fits ]
    /\ pc' = "Done"
    /\ UNCHANGED << summary, reputation_score, brand_fits, brand_files,
                    analyzer, brands_dir, collectVars, imageVars, outerVars >>

Next ==
    \/ Score
    \/ \E b \in BrandFiles : FitBrand(b)
    \/ Return

Spec == Init /\ [][Next]_vars

-----------------------------------------------------------------------------
(* Properties of the Reputation Scorer *)

\* the results dictionary exists (the run is past "Score")
Scored == pc # "Score"

\* the weighted sum of section 4.3 before the clamp, written out in points
\* of 0.0001
RawScore(s) ==
    1000000 - 30 * s.avg_toxicity - 20 * s.avg_spam - 30 * s.avg_nsfw
    - (IF s.max_identity_attack > 1000 THEN 200000 ELSE 0)
    - (IF s.max_insult > 1000 THEN 100000 ELSE 0)
    - (IF s.max_severe > 1000 THEN 300000 ELSE 0)
    + 10 * (IF s.avg_sentiment > 0 THEN s.avg_sentiment ELSE 0)

Clamp(x, lo, hi) == IF x < lo THEN lo ELSE IF x > hi THEN hi ELSE x

\* C1: for every creator summary the reputation score computed by
\* analyze_influencer_posts, and the rounded score written to the results,
\* lie in [0,100].
C1_ScoreInRange ==
    Scored =>
        /\ 0 <= reputation_score /\ reputation_score <= 1000000
        /\ 0 <= results.reputation_score /\ results.reputation_score <= 1000000

\* C1 witness: every penalty at its maximum, and the score is 0
C1_Witness ==
    /\ Scored
    /\ summary.avg_toxicity = One /\ summary.avg_spam = One
    /\ summary.avg_nsfw = One
    /\ summary.max_identity_attack > 1000 /\ summary.max_insult > 1000
    /\ summary.max_severe > 1000
    /\ RawScore(summary) < 0
    /\ reputation_score = 0

\* C2: the reputation score equals clamp(100 - 30*avg_toxicity -
\* 20*avg_spam_score - 30*avg_nsfw_score - severe_penalty +
\* 10*max(0, avg_sentiment), 0, 100); a negative avg_sentiment never lowers
\* the score; the all-zero summary scores exactly 100 with rating Excellent.
C2_ScoreFormula ==
    Scored =>
        /\ reputation_score = Clamp(RawScore(summary), 0, 1000000)
        /\ (summary.avg_sentiment < 0 =>
               reputation_score =
                   Clamp(RawScore([summary EXCEPT !.avg_sentiment = 0]), 0, 1000000))
        /\ ( ( /\ summary.avg_toxicity = 0 /\ summary.avg_spam = 0
               /\ summary.avg_nsfw = 0 /\ summary.avg_sentiment = 0
               /\ summary.max_identity_attack = 0 /\ summary.max_insult = 0
               /\ summary.max_severe = 0 )
             => reputation_score = 1000000 /\ results.rating = "Excellent" )

\* C2 witness: a negative sentiment and a score strictly inside (0,100)
C2_Witness ==
    /\ Scored
    /\ summary.avg_sentiment < 0
    /\ reputation_score > 0 /\ reputation_score < 1000000

\* C3 as stated: max_identity_attack = 0.10 incurs no penalty, 0.11 yields
\* a reputation score exactly 20 lower than the otherwise-identical summary
\* with 0.10, and every value in (0.1, 1] yields the same score.
C3_Original ==
    Scored =>
        /\ (summary.max_identity_attack = 1000 =>
               reputation_score =
                   reputation_score_of([summary EXCEPT !.max_identity_attack = 0]))
        /\ (summary.max_identity_attack = 1100 =>
               reputation_score =
                   reputation_score_of([summary EXCEPT !.max_identity_attack = 1000])
                   - 200000)
        /\ (summary.max_identity_attack > 1000 =>
               reputation_score =
                   reputation_score_of([summary EXCEPT !.max_identity_attack = 1100]))

\* C3 amended: max_identity_attack = 0.10 incurs no penalty; 0.11 makes
\* the sum before the clamp exactly 20 lower than for the otherwise-identical
\* summary with 0.10, so the reputation score is exactly 20 lower when that
\* summary's sum lies in [20,100] and is otherwise lower by at most 20
\* (the clamp absorbs the rest); every value in (0.1, 1] yields the same
\* score.
C3_StepPenalty ==
    Scored =>
        LET base == [summary EXCEPT !.max_identity_attack = 1000]
            base_score == reputation_score_of(base)
        IN  /\ (summary.max_identity_attack = 1000 =>
                   reputation_score =
                       reputation_score_of([summary EXCEPT !.max_identity_attack = 0]))
            /\ (summary.max_identity_attack = 1100 =>
                   /\ RawScore(summary) = RawScore(base) - 200000
                   /\ (RawScore(base) >= 200000 /\ RawScore(base) <= 1000000
                          => reputation_score = base_score - 200000)
                   /\ reputation_score <= base_score
                   /\ reputation_score >= base_score - 200000)
            /\ (summary.max_identity_attack > 1000 =>
                   reputation_score =
                       reputation_score_of([summary EXCEPT !.max_identity_attack = 1100]))

\* C3 witness: 0.11, and the score is exactly 20 below that of 0.10
C3_Witness ==
    /\ Scored
    /\ summary.max_identity_attack = 1100
    /\ reputation_score > 0
    /\ reputation_score =
           reputation_score_of([summary EXCEPT !.max_identity_attack = 1000]) - 200000

\* position of a reputation rating, worst first
RatingRank(label) ==
    CASE label = "Very Poor" -> 0
      [] label = "Poor"      -> 1
      [] label = "Fair"      -> 2
      [] label = "Good"      -> 3
      [] label = "Excellent" -> 4

\* scores on, just below and just above every rating boundary, and the ends
RatingProbes ==
    {0, 1000000}
    \cup { b + d : b \in {400000, 600000, 750000, 900000}, d \in {-1, 0, 1} }

\* C4: get_rating gives Excellent for score >= 90, Good for 75 <= score < 90,
\* Fair for 60 <= score < 75, Poor for 40 <= score < 60 and Very Poor below
\* 40, and is monotone: a higher score never gets a worse label.
C4_Rating ==
    Scored =>
        /\ (reputation_score >= 900000 <=> results.rating = "Excellent")
        /\ (reputation_score >= 750000 /\ reputation_score < 900000
               <=> results.rating = "Good")
        /\ (reputation_score >= 600000 /\ reputation_score < 750000
               <=> results.rating = "Fair")
        /\ (reputation_score >= 400000 /\ reputation_score < 600000
               <=> results.rating = "Poor")
        /\ (reputation_score < 400000 <=> results.rating = "Very Poor")
        /\ \A t \in RatingProbes :
               /\ (t <= reputation_score =>
                      RatingRank(get_rating(t)) <= RatingRank(results.rating))
               /\ (t >= reputation_score =>
                      RatingRank(get_rating(t)) >= RatingRank(results.rating))

\* C4 witness: a score of exactly 75, rated Good
C4_Witness ==
    /\ Scored
    /\ reputation_score = 750000
    /\ results.rating = "Good"

-----------------------------------------------------------------------------
(* Properties of the Brand Fit Analyzer *)

\* the profile a fit result was computed against
ProfileOf(fit) == BrandProfile(fit.brand_name)

\* the threshold a profile sets for a key, 1.0 when it sets none
Limit(profile, key) ==
    IF "safety_thresholds" \in DOMAIN profile
       /\ key \in DOMAIN profile.safety_thresholds
    THEN profile.safety_thresholds[key]
    ELSE 10000

\* the templates of a list of risk strings
Templates(risks) == [ i \in DOMAIN risks |-> risks[i][1] ]

\* C5: fit_score = clamp(100 - (100 - safety_score, only when the safety
\* check produced a risk string) - (100 - topic_score, only when the topic
\* check produced a risk string) + bonus, 0, 100), bonus being 5 exactly when
\* avg_sentiment > 0.5; the excluded-topics check returns (100, []) whatever
\* the brand's excluded_topics; fit_score is in [0,100].
C5_FitFormula ==
    \A i \in DOMAIN brand_fits :
        LET fit    == brand_fits[i]
            safety == _check_safety(ProfileOf(fit), results)
            topic  == _check_excluded_topics(ProfileOf(fit), results)
            bonus  == IF results.text_analysis.avg_sentiment > 5000
                      THEN 50000 ELSE 0
            minus_safety == IF Len(safety.risks) >= 1
                            THEN 1000000 - fit.details.safety_score ELSE 0
            minus_topic  == IF Len(topic.risks) >= 1
                            THEN 1000000 - fit.details.topic_score ELSE 0
        IN  /\ fit.fit_score =
                   Clamp(1000000 - minus_safety - minus_topic + bonus, 0, 1000000)
            /\ fit.details.values_score = bonus
            /\ topic.score = 1000000 /\ topic.risks = << >>
            /\ fit.details.topic_score = 1000000
            /\ fit.details.safety_score = safety.score
            /\ 0 <= fit.fit_score /\ fit.fit_score <= 1000000

\* C5 witness: a brand with excluded topics, a safety penalty and the bonus
C5_Witness ==
    \E i \in DOMAIN brand_fits :
        /\ ProfileOf(brand_fits[i]).excluded_topics # {}
        /\ results.text_analysis.avg_sentiment > 5000
        /\ brand_fits[i].details.safety_score = 700000
        /\ brand_fits[i].fit_score = 750000

\* C6: _check_safety starts at 100 and, with strict comparisons against the
\* brand's thresholds, subtracts 30 / 40 / 20 / 50 / 40 for avg_toxicity,
\* max_identity_attack, max_insult, max_severe_toxicity and avg_nsfw_score,
\* then 20 * nsfw_images_found when that count is positive; it appends one
\* risk string per triggered check in check order and returns max(0, .), so
\* safety_score is in [0,100] and the risk list is empty exactly when
\* safety_score is 100.
C6_Safety ==
    \A i \in DOMAIN brand_fits :
        LET fit == brand_fits[i]
            p   == ProfileOf(fit)
            ta  == results.text_analysis
            ia  == results.image_analysis
            t1  == ta.avg_toxicity > Limit(p, "max_toxicity")
            t2  == ta.max_identity_attack > Limit(p, "max_identity_attack")
            t3  == ta.max_insult > Limit(p, "max_insult")
            t4  == ta.max_severe_toxicity > Limit(p, "max_severe_toxicity")
            t5  == ia.avg_nsfw_score > Limit(p, "max_nsfw")
            t6  == ia.nsfw_images_found > 0
            total == (IF t1 THEN 30 ELSE 0) + (IF t2 THEN 40 ELSE 0)
                     + (IF t3 THEN 20 ELSE 0) + (IF t4 THEN 50 ELSE 0)
                     + (IF t5 THEN 40 ELSE 0)
                     + (IF t6 THEN 20 * ia.nsfw_images_found ELSE 0)
            expected ==
                (IF t1 THEN << "High average toxicity" >> ELSE << >>)
                \o (IF t2 THEN << "Identity attack detected" >> ELSE << >>)
                \o (IF t3 THEN << "Insulting content detected" >> ELSE << >>)
                \o (IF t4 THEN << "Severe toxicity detected" >> ELSE << >>)
                \o (IF t5 THEN << "NSFW content detected" >> ELSE << >>)
                \o (IF t6 THEN << "Found NSFW images" >> ELSE << >>)
            safety == _check_safety(p, results)
        IN  /\ safety.score = (IF total >= 100 THEN 0 ELSE (100 - total) * 10000)
            /\ Templates(safety.risks) = expected
            /\ fit.details.safety_score = safety.score
            /\ fit.risk_factors = safety.risks
            /\ 0 <= safety.score /\ safety.score <= 1000000
            /\ (safety.risks = << >> <=> safety.score = 1000000)

\* C6 witness: all six checks trigger and the floor acts
C6_Witness ==
    \E i \in DOMAIN brand_fits :
        /\ Len(brand_fits[i].risk_factors) = 6
        /\ results.image_analysis.nsfw_images_found = 2
        /\ brand_fits[i].details.safety_score = 0

\* C7 as stated: the brand-fit rating has the boundaries and the labels of
\* the reputation rating, except that the bottom label reads
\* "Unsafe / Do Not Partner".
C7_Original ==
    \A i \in DOMAIN brand_fits :
        brand_fits[i].rating =
            IF get_rating(brand_fits[i].fit_score) = "Very Poor"
            THEN "Unsafe / Do Not Partner"
            ELSE get_rating(brand_fits[i].fit_score)

\* the brand-fit label on the range of a reputation label
FitLabel(label) ==
    CASE label = "Excellent" -> "Perfect Match"
      [] label = "Good"      -> "Good Fit"
      [] label = "Fair"      -> "Moderate Risk"
      [] label = "Poor"      -> "High Risk"
      [] label = "Very Poor" -> "Unsafe / Do Not Partner"

\* C7 amended: the brand-fit rating uses the boundaries of the reputation
\* rating (>=90, >=75, >=60, >=40) with five labels of its own: Perfect
\* Match, Good Fit, Moderate Risk, High Risk and, at the bottom,
\* "Unsafe / Do Not Partner".
C7_FitRating ==
    \A i \in DOMAIN brand_fits :
        /\ brand_fits[i].rating = FitLabel(get_rating(brand_fits[i].fit_score))
        /\ (brand_fits[i].fit_score >= 900000
               <=> brand_fits[i].rating = "Perfect Match")
        /\ (brand_fits[i].fit_score < 400000
               <=> brand_fits[i].rating = "Unsafe / Do Not Partner")

\* C7 witness: a fit score of exactly 75, rated Good Fit
C7_Witness ==
    \E i \in DOMAIN brand_fits :
        /\ brand_fits[i].fit_score = 750000
        /\ brand_fits[i].rating = "Good Fit"

\* the summary of the end-to-end scenario: max_severe_toxicity 0.9,
\* avg_toxicity 0.8, avg_nsfw_score 0.9, nsfw_images_found 3, the rest 0
C8_Case ==
    /\ Scored
    /\ summary.max_severe = 9000 /\ summary.avg_toxicity = 8000
    /\ summary.avg_nsfw = 9000 /\ summary.nsfw_count = 3
    /\ summary.avg_spam = 0 /\ summary.avg_sentiment = 0
    /\ summary.max_identity_attack = 0 /\ summary.max_insult = 0

\* C8 as stated: for that summary the reputation score clamps to 0 and the
\* rating is Very Poor.
C8_Original ==
    C8_Case =>
        /\ reputation_score = 0
        /\ results.reputation_score = 0
        /\ results.rating = "Very Poor"

\* C8 amended: for that summary the reputation score is 19
\* (100 - 24 - 27 - 30, no clamp acting) and the rating is Very Poor.
C8_Scenario ==
    C8_Case =>
        /\ reputation_score = 190000
        /\ results.reputation_score = 190000
        /\ results.rating = "Very Poor"

\* C8 witness: the scenario's summary has been scored
C8_Witness == C8_Case /\ results.image_analysis.nsfw_images_found = 3

\* the creator result and brand of the scenario of C9: the four values, and
\* the brand's thresholds for them below the values
C9_Case(fit) ==
    /\ results.text_analysis.max_severe_toxicity = 9000
    /\ results.text_analysis.avg_toxicity = 8000
    /\ results.image_analysis.avg_nsfw_score = 9000
    /\ results.image_analysis.nsfw_images_found = 3
    /\ Limit(ProfileOf(fit), "max_severe_toxicity") < 9000
    /\ Limit(ProfileOf(fit), "max_toxicity") < 8000
    /\ Limit(ProfileOf(fit), "max_nsfw") < 9000

\* C9: for that creator result and brand, details.safety_score is 0 (not
\* negative), fit_score is at most 5 and the rating is
\* "Unsafe / Do Not Partner", with or without the sentiment bonus.
C9_UnsafeScenario ==
    \A i \in DOMAIN brand_fits :
        C9_Case(brand_fits[i]) =>
            /\ brand_fits[i].details.safety_score = 0
            /\ brand_fits[i].fit_score <= 50000
            /\ brand_fits[i].fit_score =
                   brand_fits[i].details.values_score
            /\ brand_fits[i].rating = "Unsafe / Do Not Partner"

\* C9 witness: the scenario with the sentiment bonus applied
C9_Witness ==
    \E i \in DOMAIN brand_fits :
        /\ C9_Case(brand_fits[i])
        /\ brand_fits[i].details.values_score = 50000
        /\ brand_fits[i].fit_score = 50000

\* no metric of the creator result exceeds the brand's threshold and no
\* image was counted as NSFW
C10_Case(fit) ==
    /\ results.text_analysis.avg_toxicity <= Limit(ProfileOf(fit), "max_toxicity")
    /\ results.text_analysis.max_identity_attack
           <= Limit(ProfileOf(fit), "max_identity_attack")
    /\ results.text_analysis.max_insult <= Limit(ProfileOf(fit), "max_insult")
    /\ results.text_analysis.max_severe_toxicity
           <= Limit(ProfileOf(fit), "max_severe_toxicity")
    /\ results.image_analysis.avg_nsfw_score <= Limit(ProfileOf(fit), "max_nsfw")
    /\ results.image_analysis.nsfw_images_found = 0

\* C10: when no metric exceeds the brand's thresholds and nsfw_images_found
\* is 0, analyze_fit returns risk_factors = [], fit_score = 100 (with or
\* without the +5 bonus) and rating Perfect Match.
C10_CleanCreator ==
    \A i \in DOMAIN brand_fits :
        C10_Case(brand_fits[i]) =>
            /\ brand_fits[i].risk_factors = << >>
            /\ brand_fits[i].fit_score = 1000000
            /\ brand_fits[i].rating = "Perfect Match"

\* C10 witness: a clean creator with positive sentiment (the bonus applies)
\* whose toxicity lies exactly on the brand's threshold
C10_Witness ==
    \E i \in DOMAIN brand_fits :
        /\ C10_Case(brand_fits[i])
        /\ results.text_analysis.avg_toxicity
               = Limit(ProfileOf(brand_fits[i]), "max_toxicity")
        /\ brand_fits[i].details.values_score = 50000
        /\ brand_fits[i].fit_score = 1000000

-----------------------------------------------------------------------------
(* The creator result proper *)

\* the results dictionary without the key brand_fits
WithoutFits(r) == [ k \in DOMAIN r \ {"brand_fits"} |-> r[k] ]

-----------------------------------------------------------------------------
(* ImageNSFWAnalyzer (src/models/image_nsfw.py) *)

\* config.py: IMAGE_NSFW_THRESHOLD, the default of the environment variable
\* NSFW_THRESHOLD (0.7)
IMAGE_NSFW_THRESHOLD == 7000

\* how a Python call ends: it returns a value or it raises
Returns(value) == [ raised |-> FALSE, value |-> value ]
Raises == [ raised |-> TRUE ]

\* the files analyze_image is given: one that does not exist, one that
\* Image.open / verify rejects, one that opens
ImageFiles == {"missing", "invalid", "valid"}

\* what self.classifier(path) does: it raises, it returns labels without
\* "nsfw", or it returns a score for the label "nsfw"
InferenceScores == {0, 6000, 7000, 7200, 9600, 10000}
Inferences ==
    { [ kind |-> "raises", score |-> 0 ], [ kind |-> "no_nsfw_label", score |-> 0 ] }
        \cup [ kind : {"nsfw_label"}, score : InferenceScores ]

\* the thresholds the analyzer is configured with
Thresholds == {5000, IMAGE_NSFW_THRESHOLD, 7200}

ImageAnalyzers == [ classifier_loaded : BOOLEAN, threshold : Thresholds ]

\* _default_result
_default_result ==
    [ image_path |-> "None", nsfw_score |-> 0, is_nsfw |-> FALSE,
      safe_score |-> One ]

\* variant: the comparison with the threshold is inclusive
exceeds_inclusive(nsfw_score, threshold) == nsfw_score >= threshold

\* is_nsfw = nsfw_score > self.threshold
exceeds(nsfw_score, threshold) == nsfw_score > threshold

\* variant: no handler, the exception of the body propagates
except_nothing(outcome) == outcome

\* the handler "except Exception as e: return self._default_result(...)"
\* around the body of analyze_image
except_Exception(outcome) ==
    IF outcome.raised THEN Returns(_default_result) ELSE outcome

\* analyze_image(self, image_path), image_path naming a file in the state
\* "file" and the classifier behaving as "inference"
analyze_image(self, file, inference) ==
    IF file = "missing" THEN Returns(_default_result)
    ELSE IF ~self.classifier_loaded THEN Returns(_default_result)
    ELSE except_Exception(
        IF file = "invalid" THEN Returns(_default_result)
        ELSE IF inference.kind = "raises" THEN Raises
        ELSE LET nsfw_score == IF inference.kind = "no_nsfw_label" THEN 0
                               ELSE inference.score
             IN  Returns([ image_path |-> "path",
                           nsfw_score |-> nsfw_score,
                           is_nsfw    |-> exceeds(nsfw_score, self.threshold),
                           safe_score |-> One - nsfw_score ]))

\* an analyzer, a file and a behaviour of the classifier are given
InitImage ==
    /\ pc = "AnalyzeImage"
    /\ image_analyzer \in ImageAnalyzers
    /\ image_call \in [ file : ImageFiles, inference : Inferences ]
    /\ image_result = Unbound
    /\ summary = Unbound /\ reputation_score = -1 /\ results = Unbound
    /\ brand_fits = << >> /\ brand_files = << >> /\ analyzer = Unbound
    /\ brands_dir = << >>
    /\ text_results = Unbound /\ image_results = Unbound
    /\ OuterIdle

\* the call image_analyzer.analyze_image(img_path)
AnalyzeImage ==
    /\ pc = "AnalyzeImage"
    /\ image_result' =
           analyze_image(image_analyzer, image_call.file, image_call.inference)
    /\ pc' = "Analyzed"
    /\ UNCHANGED << summary, reputation_score, results, brand_fits, brand_files,
                    analyzer, brands_dir, collectVars, image_analyzer,
                    image_call, outerVars >>

NextImage == AnalyzeImage

SpecImage == InitImage /\ [][NextImage]_vars

\* the call has returned or raised
ImageAnalyzed == pc = "Analyzed"

\* C19: analyze_image never raises to its caller: for a missing file, an
\* invalid file, a model that failed to load or an inference exception it
\* returns the safe default nsfw_score = 0, is_nsfw = false, safe_score = 1;
\* on success is_nsfw is true exactly when nsfw_score exceeds the configured
\* threshold strictly, and safe_score = 1 - nsfw_score.
C19_SafeDefault ==
    ImageAnalyzed =>
        /\ ~image_result.raised
        /\ LET r == image_result.value
               failure == \/ image_call.file \in {"missing", "invalid"}
                          \/ ~image_analyzer.classifier_loaded
                          \/ image_call.inference.kind = "raises"
           IN  IF failure
               THEN r.nsfw_score = 0 /\ r.is_nsfw = FALSE /\ r.safe_score = One
               ELSE /\ r.is_nsfw = (r.nsfw_score > image_analyzer.threshold)
                    /\ r.safe_score = One - r.nsfw_score
                    /\ r.nsfw_score =
                           (IF image_call.inference.kind = "nsfw_label"
                            THEN image_call.inference.score ELSE 0)

\* C19 witness: the classifier raised on a file that opens, and the caller
\* got the default
C19_Witness ==
    /\ ImageAnalyzed
    /\ image_call.file = "valid"
    /\ image_analyzer.classifier_loaded
    /\ image_call.inference.kind = "raises"
    /\ ~image_result.raised
    /\ image_result.value = _default_result

\* a score equal to the threshold is not flagged, one above it is
C19_Boundary ==
    /\ ImageAnalyzed
    /\ image_call.file = "valid"
    /\ image_analyzer.classifier_loaded
    /\ image_call.inference = [ kind |-> "nsfw_label", score |-> IMAGE_NSFW_THRESHOLD ]
    /\ image_analyzer.threshold = IMAGE_NSFW_THRESHOLD
    /\ image_result.value.is_nsfw = FALSE

-----------------------------------------------------------------------------
(* Collection of the signals and their aggregation
   (analyze_influencer_posts, lines 56-179) *)

MaxTexts == 2
MaxVisuals == 4

\* what the text analyzer returned for a text: the scores are multiples of
\* 0.0012, so that a mean over up to four of them is a multiple of 0.0001
TextScores ==
    { [ toxicity |-> 0, severe_toxicity |-> 0, identity_attack |-> 0,
        insult |-> 0, sentiment_score |-> 6000, spam_score |-> 0 ],
      [ toxicity |-> 9600, severe_toxicity |-> 1200, identity_attack |-> 1200,
        insult |-> 9600, sentiment_score |-> -9600, spam_score |-> 0 ],
      [ toxicity |-> 1200, severe_toxicity |-> 0, identity_attack |-> 0,
        insult |-> 0, sentiment_score |-> 0, spam_score |-> 9600 ] }

\* the entry appended to text_results for a post: post_id is a post's id
PostTextResults == { t @@ [ post_id |-> "post" ] : t \in TextScores }

\* what analyze_video returned: an audio transcript's text analysis or none,
\* a frame analysis or none
VideoResults ==
    { [ has_audio |-> TRUE, has_frames |-> FALSE,
        text_analysis |-> [ toxicity |-> 9600, severe_toxicity |-> 1200,
                            identity_attack |-> 1200, insult |-> 9600,
                            sentiment_score |-> -9600, spam_score |-> 0 ],
        avg_nsfw_score |-> 0, max_nsfw_score |-> 0 ],
      [ has_audio |-> FALSE, has_frames |-> TRUE,
        text_analysis |-> Unbound,
        avg_nsfw_score |-> 1200, max_nsfw_score |-> 7200 ],
      [ has_audio |-> FALSE, has_frames |-> TRUE,
        text_analysis |-> Unbound,
        avg_nsfw_score |-> 6000, max_nsfw_score |-> IMAGE_NSFW_THRESHOLD ] }

\* the behaviours of the classifier on the images of a creator
CollectInferences ==
    { [ kind |-> "raises", score |-> 0 ],
      [ kind |-> "nsfw_label", score |-> 6000 ],
      [ kind |-> "nsfw_label", score |-> 9600 ] }

RECURSIVE SumOf(_, _)
\* sum(r[field] for r in q)
SumOf(q, field) ==
    IF q = << >> THEN 0 ELSE q[1][field] + SumOf(Tail(q), field)

\* variant: the mean where the code takes the maximum
MeanOf(q, field) ==
    IF q = << >> THEN 0 ELSE SumOf(q, field) \div Len(q)

RECURSIVE MaxOf(_, _)
\* max((r.get(field, 0) for r in q), default=0)
MaxOf(q, field) ==
    IF q = << >> THEN 0
    ELSE IF Len(q) = 1 THEN q[1][field]
    ELSE Max2(q[1][field], MaxOf(Tail(q), field))

\* variant: the quotient is evaluated whatever the list
divides_always(q) == TRUE

\* "... if text_results else 0": the quotient sum / len is evaluated only
\* for a non-empty list
divides(q) == q # << >>

\* sum(...) / len(q) if q else 0
mean_or_0(q, field) ==
    IF divides(q) THEN SumOf(q, field) \div Len(q) ELSE 0

\* variant: the entries whose score exceeds the threshold are counted
count_nsfw_by_score(q) ==
    Cardinality({ i \in DOMAIN q : q[i].nsfw_score > IMAGE_NSFW_THRESHOLD })

\* sum(1 for r in image_results if r["is_nsfw"])
count_nsfw(q) == Cardinality({ i \in DOMAIN q : q[i].is_nsfw })

\* lines 156-179: the aggregate locals
aggregate(texts, images) ==
    [ avg_toxicity        |-> mean_or_0(texts, "toxicity"),
      avg_sentiment       |-> mean_or_0(texts, "sentiment_score"),
      avg_spam            |-> mean_or_0(texts, "spam_score"),
      avg_nsfw            |-> mean_or_0(images, "nsfw_score"),
      max_identity_attack |-> MaxOf(texts, "identity_attack"),
      max_insult          |-> MaxOf(texts, "insult"),
      max_severe          |-> MaxOf(texts, "severe_toxicity"),
      images_analyzed     |-> Len(images),
      nsfw_count          |-> IF images # << >> THEN count_nsfw(images) ELSE 0 ]

\* what the steps of the collection leave alone
collectFrame ==
    << summary, reputation_score, results, brand_fits, brand_files, analyzer,
       brands_dir, imageVars, outerVars >>

\* lines 56-60 and 87: the analyzers are obtained and the lists are empty
InitAgg ==
    /\ pc = "Texts"
    /\ text_results = << >> /\ image_results = << >>
    /\ image_analyzer = [ classifier_loaded |-> TRUE,
                          threshold |-> IMAGE_NSFW_THRESHOLD ]
    /\ image_call = Unbound /\ image_result = Unbound
    /\ summary = Unbound /\ reputation_score = -1 /\ results = Unbound
    /\ brand_fits = << >> /\ brand_files = << >> /\ analyzer = Unbound
    /\ brands_dir = << "family", "strict" >>
    /\ OuterIdle

\* lines 62-81: a row with text, analysed, is appended to text_results (a
\* row without text, or one whose analysis raises, changes nothing)
AddText(t) ==
    /\ pc = "Texts"
    /\ Len(text_results) < MaxTexts
    /\ text_results' = Append(text_results, t)
    /\ UNCHANGED << pc, image_results, collectFrame >>

\* the loop over the rows ends
EndTexts ==
    /\ pc = "Texts"
    /\ pc' = "Images"
    /\ UNCHANGED << collectVars, collectFrame >>

\* lines 94-100: an image of the creator is analysed and the result is
\* appended; an exception of analyze_image would skip the image
AddImage(file, inference) ==
    /\ pc = "Images"
    /\ Len(image_results) < MaxVisuals
    /\ LET outcome == analyze_image(image_analyzer, file, inference)
       IN  image_results' = IF outcome.raised THEN image_results
                            ELSE Append(image_results, outcome.value)
    /\ UNCHANGED << pc, text_results, collectFrame >>

\* the loop over the images ends
EndImages ==
    /\ pc = "Images"
    /\ pc' = "Videos"
    /\ UNCHANGED << collectVars, collectFrame >>

\* lines 114-143: a video of the creator is analysed; the text analysis of
\* its audio is appended to text_results and its frame analysis is appended
\* to image_results as one entry, flagged when the highest frame score
\* exceeds 0.7 (a video whose analysis raises changes nothing)
AddVideo(v) ==
    /\ pc = "Videos"
    /\ Len(text_results) < MaxTexts
    /\ Len(image_results) < MaxVisuals
    /\ text_results' =
           IF v.has_audio
           THEN Append(text_results, v.text_analysis @@ [ post_id |-> "video" ])
           ELSE text_results
    /\ image_results' =
           IF v.has_frames
           THEN Append(image_results,
                       [ image_path |-> "path",
                         nsfw_score |-> v.avg_nsfw_score,
                         is_nsfw    |-> v.max_nsfw_score > 7000,
                         safe_score |-> One - v.avg_nsfw_score ])
           ELSE image_results
    /\ UNCHANGED << pc, collectFrame >>

\* lines 156-179: the aggregates; a quotient by the length of an empty list
\* would raise ZeroDivisionError out of analyze_influencer_posts
Aggregate ==
    /\ pc = "Videos"
    /\ IF \/ (divides(text_results) /\ Len(text_results) = 0)
          \/ (divides(image_results) /\ Len(image_results) = 0)
       THEN pc' = "Raised" /\ UNCHANGED summary
       ELSE pc' = "Score" /\ summary' = aggregate(text_results, image_results)
    /\ UNCHANGED << reputation_score, results, brand_fits, brand_files,
                    analyzer, brands_dir, collectVars, imageVars, outerVars >>

NextAgg ==
    \/ \E t \in PostTextResults : AddText(t)
    \/ EndTexts
    \/ \E file \in ImageFiles, inference \in CollectInferences :
           AddImage(file, inference)
    \/ EndImages
    \/ \E v \in VideoResults : AddVideo(v)
    \/ Aggregate
    \/ Next

SpecAgg == InitAgg /\ [][NextAgg]_vars

\* the division of the means is exact for the sampled scores
MeansAreExact ==
    pc = "Videos" =>
        /\ \A f \in {"toxicity", "sentiment_score", "spam_score"} :
               text_results # << >> => SumOf(text_results, f) % Len(text_results) = 0
        /\ (image_results # << >> =>
               SumOf(image_results, "nsfw_score") % Len(image_results) = 0)

-----------------------------------------------------------------------------
(* Aggregation *)

\* the aggregates have been computed
Aggregated == pc \in {"Score", "FitAllBrands", "Done"}

\* the dictionary results has been built
Compiled == pc \in {"FitAllBrands", "Done"}

\* C12: with no text signals aggregation yields avg_toxicity = avg_sentiment
\* = avg_spam_score = 0 and max_identity_attack = max_insult =
\* max_severe_toxicity = 0; with no visual signals it yields avg_nsfw_score =
\* 0, nsfw_images_found = 0 and nsfw_ratio = 0; no division by zero or
\* exception occurs, and with both populations empty the reputation score is
\* 100.
C12_EmptyPopulations ==
    /\ pc # "Raised"
    /\ (Aggregated /\ text_results = << >> =>
           /\ summary.avg_toxicity = 0 /\ summary.avg_sentiment = 0
           /\ summary.avg_spam = 0 /\ summary.max_identity_attack = 0
           /\ summary.max_insult = 0 /\ summary.max_severe = 0)
    /\ (Aggregated /\ image_results = << >> =>
           summary.avg_nsfw = 0 /\ summary.nsfw_count = 0)
    /\ (Compiled /\ text_results = << >> =>
           /\ results.text_analysis.avg_toxicity = 0
           /\ results.text_analysis.avg_sentiment = 0
           /\ results.text_analysis.avg_spam_score = 0
           /\ results.text_analysis.max_identity_attack = 0
           /\ results.text_analysis.max_insult = 0
           /\ results.text_analysis.max_severe_toxicity = 0)
    /\ (Compiled /\ image_results = << >> =>
           /\ results.image_analysis.avg_nsfw_score = 0
           /\ results.image_analysis.nsfw_images_found = 0
           /\ results.image_analysis.nsfw_ratio = 0)
    /\ (Compiled /\ text_results = << >> /\ image_results = << >> =>
           reputation_score = Pts(100) /\ results.reputation_score = Pts(100))

\* C12 witness: a creator without any signal has been scored
C12_Witness ==
    /\ pc = "Done"
    /\ text_results = << >> /\ image_results = << >>
    /\ results.reputation_score = Pts(100)

\* texts without images: the visual aggregates are 0 while the textual
\* ones are not
C12_OnlyTexts ==
    /\ pc = "Done"
    /\ text_results # << >> /\ image_results = << >>
    /\ results.text_analysis.avg_toxicity > 0
    /\ results.image_analysis.nsfw_ratio = 0

\* the flags of the visual signals
Flagged == { i \in DOMAIN image_results : image_results[i].is_nsfw }

\* C13 as stated: nsfw_images_found is the number of signals with is_nsfw
\* true, images_analyzed the list length, 0 <= nsfw_images_found <=
\* images_analyzed, and nsfw_ratio = nsfw_images_found / images_analyzed
\* (0 for the empty list).
C13_Original ==
    Compiled =>
        LET ia == results.image_analysis
        IN  /\ ia.nsfw_images_found = Cardinality(Flagged)
            /\ ia.images_analyzed = Len(image_results)
            /\ 0 <= ia.nsfw_images_found
            /\ ia.nsfw_images_found <= ia.images_analyzed
            /\ ia.nsfw_ratio * ia.images_analyzed = ia.nsfw_images_found * One
            /\ (image_results = << >> => ia.nsfw_ratio = 0)

\* C13 amended: as stated, except that nsfw_ratio is the quotient
\* nsfw_images_found / images_analyzed rounded to three decimals (0.333 for
\* one flagged signal of three); flags [true, false, true, false] give 2
\* and 0.5.
C13_NsfwRatio ==
    Compiled =>
        LET ia == results.image_analysis
        IN  /\ ia.nsfw_images_found = Cardinality(Flagged)
            /\ ia.images_analyzed = Len(image_results)
            /\ 0 <= ia.nsfw_images_found
            /\ ia.nsfw_images_found <= ia.images_analyzed
            /\ ia.nsfw_ratio % 10 = 0
            /\ 2 * ia.nsfw_ratio * ia.images_analyzed
                   <= 2 * ia.nsfw_images_found * One + 10 * ia.images_analyzed
            /\ 2 * ia.nsfw_ratio * ia.images_analyzed
                   >= 2 * ia.nsfw_images_found * One - 10 * ia.images_analyzed
            /\ (image_results = << >> => ia.nsfw_ratio = 0)
            /\ (Len(image_results) = 4 /\ Flagged = {1, 3} =>
                   ia.nsfw_images_found = 2 /\ ia.nsfw_ratio = 5000)

\* C13 witness: one flagged signal of three, a video whose average score is
\* below the threshold, and the ratio is 0.333
C13_Witness ==
    /\ Compiled
    /\ Len(image_results) = 3
    /\ Flagged = {3}
    /\ image_results[3].nsfw_score < IMAGE_NSFW_THRESHOLD
    /\ results.image_analysis.nsfw_images_found = 1
    /\ results.image_analysis.nsfw_ratio = 3330

\* the aggregates of the first k text signals
PrefixAggregate(k) == aggregate(SubSeq(text_results, 1, k), image_results)

\* v is the largest value of the field among the text signals (0 for none)
IsMaximum(v, field) ==
    IF text_results = << >> THEN v = 0
    ELSE /\ \E i \in DOMAIN text_results : text_results[i][field] = v
         /\ \A i \in DOMAIN text_results : text_results[i][field] <= v

\* v is the arithmetic mean of the field over the text signals
IsMean(v, field) ==
    text_results # << >> => v * Len(text_results) = SumOf(text_results, field)

\* C14: max_identity_attack, max_insult and max_severe_toxicity are the
\* maximum over all text signals of the creator, those of posts and those of
\* video audio alike, so that further signals never lower them and never
\* remove a severe penalty already incurred; avg_toxicity, avg_sentiment and
\* avg_spam_score are the arithmetic means over the same signals.
C14_MaxNotMean ==
    Aggregated =>
        /\ IsMaximum(summary.max_identity_attack, "identity_attack")
        /\ IsMaximum(summary.max_insult, "insult")
        /\ IsMaximum(summary.max_severe, "severe_toxicity")
        /\ \A k \in 0..Len(text_results) :
               /\ PrefixAggregate(k).max_identity_attack <= summary.max_identity_attack
               /\ PrefixAggregate(k).max_insult <= summary.max_insult
               /\ PrefixAggregate(k).max_severe <= summary.max_severe
               /\ severe_penalty(PrefixAggregate(k)) <= severe_penalty(summary)
        /\ IsMean(summary.avg_toxicity, "toxicity")
        /\ IsMean(summary.avg_sentiment, "sentiment_score")
        /\ IsMean(summary.avg_spam, "spam_score")

\* C14 witness: a benign post and the toxic audio of a video: the maxima
\* are those of the video, the severe penalty is incurred, the mean toxicity
\* is half that of the video
C14_Witness ==
    /\ pc = "Done"
    /\ Len(text_results) = 2
    /\ text_results[1].post_id = "post" /\ text_results[1].toxicity = 0
    /\ text_results[2].post_id = "video"
    /\ summary.max_severe = 1200 /\ summary.max_insult = 9600
    /\ summary.avg_toxicity = 4800
    /\ severe_penalty(summary) > 0

\* the flags [true, false, true, false]
C13_Example ==
    /\ Compiled
    /\ Len(image_results) = 4 /\ Flagged = {1, 3}
    /\ results.image_analysis.nsfw_ratio = 5000

-----------------------------------------------------------------------------
(* Brand profile files, the persisted result and run_brand_analysis.py *)

MaxBrands == 4
MaxRescores == 2

\* the files brands/*.json can hold: the two profiles, a file that is not
\* JSON, a JSON object without "name", a file that cannot be opened
AllBrandFiles == BrandFiles \cup {"broken", "nameless", "unreadable"}

\* what open / json.load give for the brand file b
BrandFileContent(b) ==
    IF b \in BrandFiles
    THEN [ readable |-> TRUE, valid_json |-> TRUE, value |-> BrandProfile(b) ]
    ELSE IF b = "nameless"
    THEN [ readable |-> TRUE, valid_json |-> TRUE,
           value |-> [ safety_thresholds |-> [ max_toxicity |-> 5000 ],
                       excluded_topics |-> {} ] ]
    ELSE [ readable |-> b # "unreadable", valid_json |-> FALSE, value |-> Unbound ]

\* BrandFitAnalyzer._load_brand_profile: logs and re-raises
_load_brand_profile(b) ==
    LET file == BrandFileContent(b)
    IN  IF file.readable /\ file.valid_json THEN Returns(file.value) ELSE Raises

\* BrandFitAnalyzer.__init__: loads the profile and reads its "name"
BrandFitAnalyzer(b) ==
    LET loaded == _load_brand_profile(b)
    IN  IF loaded.raised THEN Raises
        ELSE IF "name" \notin DOMAIN loaded.value THEN Raises
        ELSE Returns([ brand_profile |-> loaded.value ])

\* variant: the exception of a brand file ends the loop over the brands
SkipBrand_ends_loop(b) ==
    /\ pc = "FitAllBrands"
    /\ brand_files # << >>
    /\ b = Head(brand_files)
    /\ BrandFitAnalyzer(b).raised
    /\ brand_files' = << >>
    /\ UNCHANGED << pc, summary, reputation_score, results, brand_fits,
                    analyzer, brands_dir, collectVars, imageVars, outerVars >>

\* lines 227-233: one iteration of the loop over brands/*.json for a brand
\* file whose analyzer cannot be constructed: the exception is logged
SkipBrand(b) ==
    /\ pc = "FitAllBrands"
    /\ brand_files # << >>
    /\ b = Head(brand_files)
    /\ BrandFitAnalyzer(b).raised
    /\ brand_files' = Tail(brand_files)
    /\ UNCHANGED << pc, summary, reputation_score, results, brand_fits,
                    analyzer, brands_dir, collectVars, imageVars, outerVars >>

\* json.dump of a float: its decimal text, a sign, the digits before and
\* the digits after the point
json_number(x) ==
    [ minus |-> x < 0,
      whole |-> (IF x < 0 THEN -x ELSE x) \div One,
      frac  |-> (IF x < 0 THEN -x ELSE x) % One ]

\* json.load of that text
parse_number(t) ==
    (IF t.minus THEN -1 ELSE 1) * (t.whole * One + t.frac)

\* a FitResult as written by json.dump
dump_fit(fit) ==
    [ fit EXCEPT !.fit_score = json_number(@),
                 !.details = [ k \in DOMAIN @ |-> json_number(@[k]) ] ]

\* a FitResult as read by json.load
load_fit(text) ==
    [ text EXCEPT !.fit_score = parse_number(@),
                  !.details = [ k \in DOMAIN @ |-> parse_number(@[k]) ] ]

\* json.dump(results, f, indent=2, ensure_ascii=False)
json_dump(doc) ==
    [ doc EXCEPT
        !.text_analysis = [ k \in DOMAIN @ |-> json_number(@[k]) ],
        !.image_analysis.avg_nsfw_score = json_number(@),
        !.image_analysis.nsfw_ratio = json_number(@),
        !.reputation_score = json_number(@),
        !.brand_fits = [ i \in DOMAIN @ |-> dump_fit(@[i]) ] ]

\* json.load(f)
json_load(text) ==
    [ text EXCEPT
        !.text_analysis = [ k \in DOMAIN @ |-> parse_number(@[k]) ],
        !.image_analysis.avg_nsfw_score = parse_number(@),
        !.image_analysis.nsfw_ratio = parse_number(@),
        !.reputation_score = parse_number(@),
        !.brand_fits = [ i \in DOMAIN @ |-> load_fit(@[i]) ] ]

RECURSIVE fits_of(_, _)
\* run_brand_analysis.py, lines 49-63: the loop over brand_files
fits_of(files, doc) ==
    IF files = << >> THEN << >>
    ELSE LET constructed == BrandFitAnalyzer(Head(files))
         IN  (IF constructed.raised THEN << >>
              ELSE << analyze_fit(constructed.value.brand_profile, doc) >>)
             \o fits_of(Tail(files), doc)

\* variant: the new fits are added to those already in the document
rescore_extending(doc, files) ==
    [ doc EXCEPT !.brand_fits = @ \o fits_of(files, doc) ]

\* run_brand_analysis.py, lines 49-66: results["brand_fits"] = brand_fits
rescore(doc, files) ==
    [ doc EXCEPT !.brand_fits = fits_of(files, doc) ]

\* a creator whose unrounded score is 89.998: one insult above 0.1 and a
\* mean spam score of 0.0001
JustBelowExcellent ==
    CHOOSE s \in Summaries :
        /\ s.avg_toxicity = 0 /\ s.avg_spam = 1 /\ s.avg_sentiment = 0
        /\ s.max_identity_attack = 0 /\ s.max_insult = 1100 /\ s.max_severe = 0
        /\ s.images_analyzed = 0

\* the summaries the brand files are exercised with
BrandSummaries ==
    { s \in Summaries :
        /\ s.avg_spam = 0 /\ s.avg_sentiment = 0
        /\ s.max_identity_attack = 0 /\ s.max_insult = 0 /\ s.max_severe = 0
        /\ s.images_analyzed = MaxImages /\ s.nsfw_count \in {0, MaxImages}
        /\ s.avg_nsfw \in {0, 9000} }
    \cup { JustBelowExcellent }

\* the listings of at most n of the files of S
ListingsUpTo(S, n) ==
    UNION { Listings(T) : T \in { U \in SUBSET S : Cardinality(U) <= n } }

\* the aggregates of a creator are computed and brands/ holds some files
InitBrands ==
    /\ pc = "Score"
    /\ summary \in BrandSummaries
    /\ reputation_score = -1
    /\ results = Unbound
    /\ brand_fits = << >>
    /\ brand_files = << >>
    /\ analyzer = Unbound
    /\ brands_dir \in ListingsUpTo(AllBrandFiles, MaxBrands)
    /\ text_results = Unbound /\ image_results = Unbound
    /\ image_analyzer = Unbound /\ image_call = Unbound /\ image_result = Unbound
    /\ OuterIdle

\* main, lines 353-356: save_results(results, output_path)
Save ==
    /\ pc = "Done"
    /\ results_file' = json_dump(results)
    /\ pc' = "Saved"
    /\ UNCHANGED << summary, reputation_score, results, brand_fits, brand_files,
                    analyzer, brands_dir, collectVars, imageVars, rescored,
                    batchVars >>

\* run_brand_analysis.main for the creator's file: it returns early when
\* brands/ holds no file; otherwise the document is loaded, every brand file
\* is tried, brand_fits is replaced and the document is written back
RunBrandAnalysis ==
    /\ pc \in {"Saved", "BrandAdded", "Rescored"}
    /\ rescored < MaxRescores
    /\ brands_dir # << >>
    /\ results_file' = json_dump(rescore(json_load(results_file), brands_dir))
    /\ rescored' = rescored + 1
    /\ pc' = "Rescored"
    /\ UNCHANGED << summary, reputation_score, results, brand_fits, brand_files,
                    analyzer, brands_dir, collectVars, imageVars, batchVars >>

\* a brand file is added to brands/ after the pipeline has run
AddBrandProfile(b) ==
    /\ pc \in {"Saved", "BrandAdded", "Rescored"}
    /\ Len(brands_dir) < MaxBrands
    /\ \A i \in DOMAIN brands_dir : brands_dir[i] # b
    /\ brands_dir' = Append(brands_dir, b)
    /\ rescored' = 0
    /\ pc' = "BrandAdded"
    /\ UNCHANGED << summary, reputation_score, results, brand_fits, brand_files,
                    analyzer, collectVars, imageVars, results_file,
                    batchVars >>

NextBrands ==
    \/ Next
    \/ \E b \in AllBrandFiles : SkipBrand(b)
    \/ Save
    \/ RunBrandAnalysis
    \/ \E b \in AllBrandFiles : AddBrandProfile(b)

SpecBrands == InitBrands /\ [][NextBrands]_vars

-----------------------------------------------------------------------------
(* Re-scoring and unloadable brand files *)

\* the brand file holds a profile an analyzer can be constructed from
IsProfile(b) == b \in BrandFiles

\* the loadable brand files of a listing, in its order
Loadable(files) == SelectSeq(files, IsProfile)

\* the brand names of a list of fits
NamesOf(fits) == [ i \in DOMAIN fits |-> fits[i].brand_name ]

\* the fit of the creator's summary with the brand named name
PipelineFit(name) == analyze_fit(BrandProfile(name), compile_results(summary))

C15_Rescore ==
    [][ rescored' = rescored + 1 =>
          LET old == json_load(results_file)
              new == json_load(results_file')
          IN  /\ UNCHANGED << summary, reputation_score, results, brand_fits,
                              collectVars, imageVars >>
              /\ WithoutFits(new) = WithoutFits(old)
              /\ NamesOf(new.brand_fits) = Loadable(brands_dir)
              /\ \A i \in DOMAIN new.brand_fits :
                     /\ new.brand_fits[i] = PipelineFit(new.brand_fits[i].brand_name)
                     /\ \A j \in DOMAIN brand_fits :
                            brand_fits[j].brand_name = new.brand_fits[i].brand_name
                                => new.brand_fits[i] = brand_fits[j]
              /\ (rescored >= 1 => results_file' = results_file) ]_vars

\* C15 witness: the file has been re-scored twice; it holds the fit of a
\* brand added after the pipeline ran next to that of the pipeline, which
\* found risks, and brands/ also holds a file that does not load
C15_Witness ==
    /\ pc = "Rescored" /\ rescored = 2
    /\ Len(brand_fits) = 1 /\ brand_fits[1].risk_factors # << >>
    /\ Len(json_load(results_file).brand_fits) = 2
    /\ json_load(results_file).brand_fits[1] = brand_fits[1]
    /\ Len(brands_dir) > 2

\* C17: a brand file that is missing, unreadable or malformed (valid JSON
\* without a name included) costs that brand's fit only: brand_fits holds
\* exactly one FitResult for each loadable brand, the pipeline goes on to
\* persist the creator's result, and the reputation fields are those of the
\* summary.
C17_BadBrandSkipped ==
    /\ (pc \in {"Done", "Saved"} =>
           /\ NamesOf(results.brand_fits) = Loadable(brands_dir)
           /\ \A i \in DOMAIN results.brand_fits :
                  results.brand_fits[i] =
                      PipelineFit(results.brand_fits[i].brand_name)
           /\ WithoutFits(results) = compile_results(summary))
    /\ (pc \in {"Score", "FitAllBrands", "Done"} => ENABLED NextBrands)
    /\ (pc = "Saved" => results_file # Unbound /\ json_load(results_file) = results)
    /\ (pc = "Rescored" =>
           /\ NamesOf(json_load(results_file).brand_fits) = Loadable(brands_dir)
           /\ WithoutFits(json_load(results_file)) = compile_results(summary))

\* C17 witness: brands/ holds the three kinds of file that do not load, the
\* first of them before the one profile; the result is persisted with the
\* one fit
C17_Witness ==
    /\ pc = "Saved"
    /\ Len(brands_dir) = 4
    /\ \A b \in {"broken", "nameless", "unreadable"} :
           \E i \in DOMAIN brands_dir : brands_dir[i] = b
    /\ brands_dir[1] = "broken" /\ brands_dir[3] \in BrandFiles
    /\ Len(json_load(results_file).brand_fits) = 1
    /\ json_load(results_file).reputation_score = round2(reputation_score)

-----------------------------------------------------------------------------
(* main of run_full_pipeline.py: the batch of creators *)

\* creator handles, as the parts an underscore separates: john, john_doe
\* and kate
Creators == { << "john" >>, << "john", "doe" >>, << "kate" >> }

\* Converter.save_image: dataset/images/<username>_<index>.jpg
ImageOf(w) == [ owner |-> w, stem |-> w \o << "0" >>, ext |-> "jpg" ]

\* Converter.save_video: dataset/videos/<username>_v_<index>.mp4
VideoOf(w) == [ owner |-> w, stem |-> w \o << "v", "0" >>, ext |-> "mp4" ]

\* the media files Converter.py saves for the posts of the creators of C
FilesOf(C) == { ImageOf(w) : w \in C } \cup { VideoOf(w) : w \in C }

\* the file matches the pattern "<username>_*.<ext>"
glob_match(u, file, ext) ==
    /\ file.ext = ext
    /\ Len(file.stem) > Len(u)
    /\ SubSeq(file.stem, 1, Len(u)) = u

\* the configuration of config.py; that configuration without the API
\* token; that configuration with fusion weights that sum to 1.02
Configs ==
    { [ APIFY_API_TOKEN |-> "token",
        fusion_weights  |-> << 2500, 2500, 3000, 2000 >>,
        brand_weights   |-> << 3000, 2500, 2500, 2000 >> ],
      [ APIFY_API_TOKEN |-> "",
        fusion_weights  |-> << 2500, 2500, 3000, 2000 >>,
        brand_weights   |-> << 3000, 2500, 2500, 2000 >> ],
      [ APIFY_API_TOKEN |-> "token",
        fusion_weights  |-> << 2500, 2500, 3000, 2200 >>,
        brand_weights   |-> << 3000, 2500, 2500, 2000 >> ] }

\* abs(x)
abs(x) == IF x < 0 THEN -x ELSE x

\* config.validate_config: it raises ValueError when errors were found
validate_config(c) ==
    LET fusion_weight_sum == c.fusion_weights[1] + c.fusion_weights[2]
                                 + c.fusion_weights[3] + c.fusion_weights[4]
        brand_weight_sum  == c.brand_weights[1] + c.brand_weights[2]
                                 + c.brand_weights[3] + c.brand_weights[4]
        errors ==
            (IF c.APIFY_API_TOKEN = ""
             THEN << "APIFY_API_TOKEN not set in .env file" >> ELSE << >>)
            \o (IF abs(fusion_weight_sum - One) > 100
                THEN << "Content fusion weights must sum to 1.0" >> ELSE << >>)
            \o (IF abs(brand_weight_sum - One) > 100
                THEN << "Brand fit weights must sum to 1.0" >> ELSE << >>)
    IN  IF errors # << >> THEN Raises ELSE Returns(TRUE)

\* the stages of main for one creator, in their order
StageNames == << "Preprocess", "Media", "Analyze", "Save", "Cleanup" >>

\* the position of a stage in that order
StageIndex(stage) == CHOOSE i \in DOMAIN StageNames : StageNames[i] = stage

\* the parts of analyze_influencer_posts (stage 3), in their order
AnalysisSteps ==
    << "AnalyzeText", "AnalyzeImages", "AnalyzeVideos", "Aggregate", "Score",
       "FitAllBrands" >>

\* the content of a <u>_posts.json file: that of the file found in the
\* working directory by this run, or that of a copy an earlier run left in
\* data/raw
Origins == { "working directory", "earlier run" }

\* what the steps of main leave alone
batchFrame ==
    << summary, reputation_score, results, brand_fits, brand_files, analyzer,
       brands_dir, collectVars, imageVars, fileVars, itemVars >>

\* the directories before main has run on them, and main's locals
BatchIdle ==
    /\ pc = "Import"
    /\ warned = FALSE
    /\ attempted = << >>
    /\ username = Unbound
    /\ cwd = { batch[i] : i \in DOMAIN batch }
    /\ stage_log = {} /\ raised = {} /\ population = {} /\ saved = {}
    /\ preprocessed = {} /\ downloads = {}
    /\ summary = Unbound /\ reputation_score = -1 /\ results = Unbound
    /\ brand_fits = << >> /\ brand_files = << >> /\ analyzer = Unbound
    /\ brands_dir = << >>
    /\ text_results = Unbound /\ image_results = Unbound
    /\ image_analyzer = Unbound /\ image_call = Unbound /\ image_result = Unbound
    /\ results_file = Unbound /\ rescored = 0
    /\ df = << >> /\ image_files = << >> /\ video_files = << >>
    /\ idx = 0 /\ vid_result = Unbound /\ CLEANUP_MODE = "immediate"

\* the process starts: some *_posts.json files are in the working directory
\* and the media of some creators have been downloaded before; data/raw and
\* data/processed are empty
InitBatch ==
    /\ config \in Configs
    /\ batch \in ListingsUpTo(Creators, Cardinality(Creators))
    /\ BatchIdle
    /\ csv = {} /\ raw = {}
    /\ media \in { FilesOf(C) : C \in SUBSET Creators }

\* config.py, lines 136-141: on import validate_config runs inside a try
\* whose handler prints "Warning: ..." for the ValueError
ImportConfig ==
    /\ pc = "Import"
    /\ warned' = validate_config(config).raised
    /\ pc' = "Glob"
    /\ UNCHANGED << config, batch, attempted, username, csv, stage_log, raised,
                    media, population, saved, runVars, batchFrame >>

\* main, lines 306-314: the glob of *_posts.json; main returns if it is empty
FindJsonFiles ==
    /\ pc = "Glob"
    /\ pc' = IF batch = << >> THEN "Complete" ELSE "Loop"
    /\ UNCHANGED << batchVars, batchFrame >>

\* main, lines 316-318: the loop takes the next json_file
StartCreator ==
    /\ pc = "Loop"
    /\ Len(attempted) < Len(batch)
    /\ username' = batch[Len(attempted) + 1]
    /\ attempted' = Append(attempted, batch[Len(attempted) + 1])
    /\ pc' = "Preprocess"
    /\ UNCHANGED << config, warned, batch, csv, stage_log, raised, media,
                    population, saved, runVars, batchFrame >>

\* main, lines 375-376: the loop is over
Finish ==
    /\ pc = "Loop"
    /\ Len(attempted) = Len(batch)
    /\ pc' = "Complete"
    /\ UNCHANGED << batchVars, batchFrame >>

\* main, lines 321-331: stage 1; the JSON is moved to data/raw unless a file
\* of that name is there already, and preprocess_apify_json reads the file
\* of data/raw: it returns without writing the CSV when no post is valid,
\* and writes the CSV otherwise
PreprocessStage(outcome) ==
    /\ pc = "Preprocess"
    /\ LET exists == \E o \in Origins : << username, o >> \in raw
           moved  == IF exists THEN raw
                     ELSE raw \cup { << username, "working directory" >> }
           origin == CHOOSE o \in Origins : << username, o >> \in moved
       IN  /\ raw' = moved
           /\ cwd' = IF exists THEN cwd ELSE cwd \ {username}
           /\ csv' = IF outcome = "posts" THEN csv \cup {username} ELSE csv
           /\ preprocessed' = preprocessed \cup
                  { [ username |-> username, origin |-> origin,
                      valid |-> outcome = "posts" ] }
    /\ stage_log' = stage_log \cup { << username, "Preprocess" >> }
    /\ pc' = "Media"
    /\ UNCHANGED << config, warned, batch, attempted, username, raised, media,
                    population, saved, downloads, batchFrame >>

\* main, lines 333-348: stage 2; when dataset/ holds any media file the
\* download is skipped, otherwise Converter.main saves the media of the
\* posts of every *_posts.json file in the working directory (the downloads
\* succeed)
MediaStage ==
    /\ pc = "Media"
    /\ LET has_images == \E f \in media : f.ext = "jpg"
           has_videos == \E f \in media : f.ext = "mp4"
       IN  IF has_images \/ has_videos
           THEN UNCHANGED << media, downloads >>
           ELSE /\ downloads' = downloads \cup {username}
                /\ media' = FilesOf(cwd)
    /\ stage_log' = stage_log \cup { << username, "Media" >> }
    /\ pc' = "Analyze"
    /\ UNCHANGED << config, warned, batch, attempted, username, csv, raised,
                    population, saved, cwd, raw, preprocessed, batchFrame >>

\* main, line 352, and analyze_influencer_posts, lines 44-52: stage 3
\* begins; None is returned when the CSV is missing, and then nothing is
\* saved
AnalyzeStage ==
    /\ pc = "Analyze"
    /\ IF username \notin csv
       THEN /\ stage_log' = stage_log \cup { << username, "Analyze" >> }
            /\ pc' = "Loop"
       ELSE /\ pc' = "AnalyzeText"
            /\ UNCHANGED stage_log
    /\ UNCHANGED << config, warned, batch, attempted, username, csv, raised,
                    media, population, saved, runVars, batchFrame >>

\* analyze_influencer_posts, lines 59-84: the loop over the rows
AnalyzeTexts ==
    /\ pc = "AnalyzeText"
    /\ stage_log' = stage_log \cup { << username, "AnalyzeText" >> }
    /\ pc' = "AnalyzeImages"
    /\ UNCHANGED << config, warned, batch, attempted, username, csv, raised,
                    media, population, saved, runVars, batchFrame >>

\* lines 87-101: the files matching "<username>_*.jpg" are analysed
AnalyzeImages ==
    /\ pc = "AnalyzeImages"
    /\ population' = population \cup
           { << username, f >> : f \in { g \in media : glob_match(username, g, "jpg") } }
    /\ stage_log' = stage_log \cup { << username, "AnalyzeImages" >> }
    /\ pc' = "AnalyzeVideos"
    /\ UNCHANGED << config, warned, batch, attempted, username, csv, raised,
                    media, saved, runVars, batchFrame >>

\* lines 104-151: the files matching "<username>_*.mp4" are analysed, and
\* each is deleted once analysed when CLEANUP_MODE is "immediate"
AnalyzeVideos ==
    /\ pc = "AnalyzeVideos"
    /\ LET videos == { f \in media : glob_match(username, f, "mp4") }
       IN  /\ population' = population \cup { << username, f >> : f \in videos }
           /\ media' = IF CLEANUP_MODE = "immediate" THEN media \ videos
                       ELSE media
    /\ stage_log' = stage_log \cup { << username, "AnalyzeVideos" >> }
    /\ pc' = "Aggregate"
    /\ UNCHANGED << config, warned, batch, attempted, username, csv, raised,
                    saved, runVars, batchFrame >>

\* lines 156-179: the aggregates
AggregateScores ==
    /\ pc = "Aggregate"
    /\ stage_log' = stage_log \cup { << username, "Aggregate" >> }
    /\ pc' = "Score"
    /\ UNCHANGED << config, warned, batch, attempted, username, csv, raised,
                    media, population, saved, runVars, batchFrame >>

\* variant: the results are saved as soon as they are compiled
ScoreCreator_then_save ==
    /\ pc = "Score"
    /\ stage_log' = stage_log \cup { << username, "Score" >>,
                                     << username, "Analyze" >> }
    /\ pc' = "Save"
    /\ UNCHANGED << config, warned, batch, attempted, username, csv, raised,
                    media, population, saved, runVars, batchFrame >>

\* lines 169-221: the reputation score and the results dictionary
ScoreCreator ==
    /\ pc = "Score"
    /\ stage_log' = stage_log \cup { << username, "Score" >> }
    /\ pc' = "FitAllBrands"
    /\ UNCHANGED << config, warned, batch, attempted, username, csv, raised,
                    media, population, saved, runVars, batchFrame >>

\* lines 223-238: the brand loop; results["brand_fits"] is set and results
\* is returned to main
FitAllBrands ==
    /\ pc = "FitAllBrands"
    /\ stage_log' = stage_log \cup { << username, "FitAllBrands" >>,
                                     << username, "Analyze" >> }
    /\ pc' = "Save"
    /\ UNCHANGED << config, warned, batch, attempted, username, csv, raised,
                    media, population, saved, runVars, batchFrame >>

\* main, lines 354-359: save_results and print_results_summary
SaveStage ==
    /\ pc = "Save"
    /\ saved' = saved \cup {username}
    /\ stage_log' = stage_log \cup { << username, "Save" >> }
    /\ pc' = "Cleanup"
    /\ UNCHANGED << config, warned, batch, attempted, username, csv, raised,
                    media, population, runVars, batchFrame >>

\* main, lines 361-365: stage 4; cleanup_media_files(keep_thumbnails=True)
\* deletes every *.mp4 of dataset/videos (CLEANUP_MEDIA is true)
CleanupStage ==
    /\ pc = "Cleanup"
    /\ media' = { f \in media : f.ext # "mp4" }
    /\ stage_log' = stage_log \cup { << username, "Cleanup" >> }
    /\ pc' = "Loop"
    /\ UNCHANGED << config, warned, batch, attempted, username, csv, raised,
                    population, saved, runVars, batchFrame >>

\* variant: the exception leaves main
StageRaises_propagates ==
    /\ pc \in { StageNames[i] : i \in DOMAIN StageNames }
    /\ raised' = raised \cup { << username, pc >> }
    /\ pc' = "Complete"
    /\ UNCHANGED << config, warned, batch, attempted, username, csv, stage_log,
                    media, population, saved, runVars, batchFrame >>

\* main, lines 320 and 372-374: a stage raises an Exception; the handler of
\* the try around the stages logs it and continues with the next json_file
\* (an exception is taken at the beginning of the stage that raises it)
StageRaises ==
    /\ pc \in { StageNames[i] : i \in DOMAIN StageNames }
    /\ raised' = raised \cup { << username, pc >> }
    /\ pc' = "Loop"
    /\ UNCHANGED << config, warned, batch, attempted, username, csv, stage_log,
                    media, population, saved, runVars, batchFrame >>

NextBatch ==
    \/ ImportConfig
    \/ FindJsonFiles
    \/ StartCreator
    \/ Finish
    \/ \E outcome \in {"posts", "no valid posts"} : PreprocessStage(outcome)
    \/ MediaStage
    \/ AnalyzeStage
    \/ AnalyzeTexts
    \/ AnalyzeImages
    \/ AnalyzeVideos
    \/ AggregateScores
    \/ ScoreCreator
    \/ FitAllBrands
    \/ SaveStage
    \/ CleanupStage
    \/ StageRaises

\* main runs on: a step that can be taken is taken
SpecBatch == InitBatch /\ [][NextBatch]_vars /\ WF_vars(NextBatch)

\* the process starts after earlier runs: data/raw holds the JSON files
\* earlier runs moved there, data/processed the CSV files they wrote and
\* dataset/ the media they left; new *_posts.json files of up to two
\* creators are in the working directory
InitRerun ==
    /\ config \in { c \in Configs : ~ validate_config(c).raised }
    /\ batch \in ListingsUpTo(Creators, Cardinality(Creators) - 1)
    /\ BatchIdle
    /\ csv \in SUBSET Creators
    /\ raw \in { { << u, "earlier run" >> : u \in C } : C \in SUBSET Creators }
    /\ media \in { FilesOf({}), FilesOf(Creators) }

SpecRerun == InitRerun /\ [][NextBatch]_vars /\ WF_vars(NextBatch)

-----------------------------------------------------------------------------
(* analyze_influencer_posts, item by item: the loops over the rows of the  *)
(* CSV, over image_files and over video_files                              *)

MaxPosts == 2
MaxFiles == 2

\* Python's None
None == [ none |-> TRUE ]

\* the creator whose posts are analysed
Creator == << "john" >>

\* the rows of <username>_processed.csv: a row whose text is analysed, a
\* row on whose text the analyzer raises, a row without caption and
\* comments
Rows ==
    { [ post_id |-> "benign", text |-> TRUE, raises |-> FALSE,
        scores |-> [ toxicity |-> 0, severe_toxicity |-> 0,
                     identity_attack |-> 0, insult |-> 0,
                     sentiment_score |-> 6000, spam_score |-> 0 ] ],
      [ post_id |-> "failing", text |-> TRUE, raises |-> TRUE,
        scores |-> [ toxicity |-> 9600, severe_toxicity |-> 1200,
                     identity_attack |-> 1200, insult |-> 9600,
                     sentiment_score |-> -9600, spam_score |-> 0 ] ],
      [ post_id |-> "blank", text |-> FALSE, raises |-> FALSE,
        scores |-> [ toxicity |-> 0, severe_toxicity |-> 0,
                     identity_attack |-> 0, insult |-> 0,
                     sentiment_score |-> 0, spam_score |-> 0 ] ] }

\* a file dataset/images/<username>_<name>.jpg or
\* dataset/videos/<username>_v_<name>.mp4
ImageNamed(name) == [ owner |-> Creator, stem |-> Creator \o << name >>, ext |-> "jpg" ]
VideoNamed(name) ==
    [ owner |-> Creator, stem |-> Creator \o << "v", name >>, ext |-> "mp4" ]

\* the images of the creator: the classifier's score for the image, or a
\* call of analyze_image that raises
Images ==
    { [ file |-> ImageNamed("safe"), raises |-> FALSE,
        inference |-> [ kind |-> "nsfw_label", score |-> 6000 ] ],
      [ file |-> ImageNamed("explicit"), raises |-> FALSE,
        inference |-> [ kind |-> "nsfw_label", score |-> 9600 ] ],
      [ file |-> ImageNamed("failing"), raises |-> TRUE,
        inference |-> [ kind |-> "raises", score |-> 0 ] ] }

\* the videos of the creator: the scores of the extracted frames, and the
\* audio track: none, one without transcription, or speech with the text
\* analysis of its transcription; or a call of analyze_video that raises
Videos ==
    { [ file |-> VideoNamed("frames"), raises |-> FALSE,
        frames |-> << 1200, 7200 >>, audio |-> "none" ],
      [ file |-> VideoNamed("speech"), raises |-> FALSE,
        frames |-> << >>, audio |-> "speech" ],
      [ file |-> VideoNamed("boundary"), raises |-> FALSE,
        frames |-> << IMAGE_NSFW_THRESHOLD, 6200 >>, audio |-> "silent" ],
      [ file |-> VideoNamed("failing"), raises |-> TRUE,
        frames |-> << 9600 >>, audio |-> "speech" ] }

\* the text analysis of the speech of a video
SpeechScores ==
    [ toxicity |-> 9600, severe_toxicity |-> 1200, identity_attack |-> 1200,
      insult |-> 9600, sentiment_score |-> -9600, spam_score |-> 2400 ]

RECURSIVE MinOf(_, _)
\* np.min of the field
MinOf(q, field) ==
    IF Len(q) = 1 THEN q[1][field]
    ELSE Min2(q[1][field], MinOf(Tail(q), field))

\* ImageNSFWAnalyzer.analyze_batch on the extracted frames
analyze_batch(self, frames) ==
    [ i \in DOMAIN frames |->
        analyze_image(self, "valid",
                      [ kind |-> "nsfw_label", score |-> frames[i] ]).value ]

\* VideoAnalyzer._aggregate_frame_scores
_aggregate_frame_scores(frame_results) ==
    IF frame_results = << >>
    THEN [ avg_nsfw_score |-> 0, max_nsfw_score |-> 0, min_nsfw_score |-> 0,
           nsfw_frame_count |-> 0, total_frames |-> 0 ]
    ELSE [ avg_nsfw_score   |-> SumOf(frame_results, "nsfw_score")
                                    \div Len(frame_results),
           max_nsfw_score   |-> MaxOf(frame_results, "nsfw_score"),
           min_nsfw_score   |-> MinOf(frame_results, "nsfw_score"),
           nsfw_frame_count |-> count_nsfw(frame_results),
           total_frames     |-> Len(frame_results) ]

\* AudioAnalyzer.analyze_audio_with_text_model: the transcription result,
\* with text_analysis and spam_detection when there is a transcription
analyze_audio_with_text_model(audio) ==
    IF audio = "speech"
    THEN [ success |-> TRUE,
           text_analysis |-> [ k \in DOMAIN SpeechScores \ {"spam_score"} |->
                                   SpeechScores[k] ],
           spam_detection |-> [ spam_score |-> SpeechScores.spam_score ] ]
    ELSE [ success |-> FALSE, text_analysis |-> None, spam_detection |-> None ]

\* VideoAnalyzer.analyze_video: frame_analysis stays None without frames,
\* audio_analysis stays None without an audio track
analyze_video(self, video) ==
    IF video.raises THEN Raises
    ELSE Returns(
        [ frame_analysis |->
              IF video.frames # << >>
              THEN _aggregate_frame_scores(analyze_batch(self, video.frames))
              ELSE None,
          audio_analysis |->
              IF video.audio # "none"
              THEN analyze_audio_with_text_model(video.audio)
              ELSE None ])

\* variant: the flag follows the average score of the frames
flag_by_avg(fa) == fa.avg_nsfw_score > 7000

\* "is_nsfw": fa["max_nsfw_score"] > 0.7
flag_by_max(fa) == fa.max_nsfw_score > 7000

\* variant: the file is left where it is
cleanup_file_skipped(files, file_path) == files

\* storage.cleanup_file: the file is unlinked if it exists (the unlink
\* succeeds)
cleanup_file(files, file_path) == files \ {file_path}

\* what the loops leave alone
itemFrame ==
    << summary, reputation_score, results, brand_fits, brand_files, analyzer,
       brands_dir, imageVars, fileVars, config, warned, batch, attempted,
       username, csv, stage_log, raised, population, saved, runVars, df,
       image_files, video_files, CLEANUP_MODE >>

\* analyze_influencer_posts is called for a creator whose CSV exists;
\* dataset/ holds some images and some videos of the creator
InitItems ==
    /\ pc = "ReadCsv"
    /\ username = Creator
    /\ df = << >> /\ image_files = << >> /\ video_files = << >>
    /\ \E I \in SUBSET Images, V \in SUBSET Videos :
           /\ Cardinality(I) <= MaxFiles /\ Cardinality(V) <= MaxFiles
           /\ media = { item.file : item \in I \cup V }
    /\ CLEANUP_MODE \in {"immediate", "end", "none"}
    /\ image_analyzer \in
           { a \in ImageAnalyzers :
               a.classifier_loaded /\ a.threshold >= IMAGE_NSFW_THRESHOLD }
    /\ idx = 0 /\ vid_result = Unbound
    /\ text_results = Unbound /\ image_results = Unbound
    /\ image_call = Unbound /\ image_result = Unbound
    /\ summary = Unbound /\ reputation_score = -1 /\ results = Unbound
    /\ brand_fits = << >> /\ brand_files = << >> /\ analyzer = Unbound
    /\ brands_dir = << "family", "strict" >>
    /\ results_file = Unbound /\ rescored = 0
    /\ config = Unbound /\ warned = FALSE
    /\ batch = << >> /\ attempted = << >>
    /\ csv = {Creator} /\ stage_log = {} /\ raised = {}
    /\ population = {} /\ saved = {}
    /\ cwd = {} /\ raw = {} /\ preprocessed = {} /\ downloads = {}

\* lines 51-60: the CSV is read, the analyzers are obtained
ReadCsv ==
    /\ pc = "ReadCsv"
    /\ df' \in ListingsUpTo(Rows, MaxPosts)
    /\ text_results' = << >>
    /\ pc' = "TextLoop"
    /\ UNCHANGED << image_results, media, idx, vid_result, image_files,
                    video_files >>
    /\ UNCHANGED << summary, reputation_score, results, brand_fits, brand_files,
                    analyzer, brands_dir, imageVars, fileVars, config, warned,
                    batch, attempted, username, csv, stage_log, raised,
                    population, saved, runVars, CLEANUP_MODE >>

\* lines 62-84: one iteration of the loop over the rows; a row without text
\* is passed over, and so is a row whose analysis raises (the handler logs
\* and continues)
TextIteration ==
    /\ pc = "TextLoop"
    /\ idx < Len(df)
    /\ LET row == df[idx + 1]
       IN  text_results' =
               IF row.text /\ ~ row.raises
               THEN Append(text_results, row.scores @@ [ post_id |-> row.post_id ])
               ELSE text_results
    /\ idx' = idx + 1
    /\ UNCHANGED << pc, image_results, media, vid_result, itemFrame >>

\* lines 87-93: the loop over the rows is exhausted; the glob of
\* "<username>_*.jpg" lists the images, in some order
EndTextLoop ==
    /\ pc = "TextLoop"
    /\ idx = Len(df)
    /\ image_files' \in
           Listings({ img \in Images : /\ img.file \in media
                                       /\ glob_match(username, img.file, "jpg") })
    /\ image_results' = << >>
    /\ pc' = "ImageLoop"
    /\ idx' = 0
    /\ UNCHANGED << text_results, media, vid_result, df, video_files >>
    /\ UNCHANGED << summary, reputation_score, results, brand_fits, brand_files,
                    analyzer, brands_dir, imageVars, fileVars, config, warned,
                    batch, attempted, username, csv, stage_log, raised,
                    population, saved, runVars, CLEANUP_MODE >>

\* lines 96-101: one iteration of the loop over image_files
ImageIteration ==
    /\ pc = "ImageLoop"
    /\ idx < Len(image_files)
    /\ LET img == image_files[idx + 1]
           outcome == IF img.raises THEN Raises
                      ELSE analyze_image(image_analyzer, "valid", img.inference)
       IN  image_results' = IF outcome.raised THEN image_results
                            ELSE Append(image_results, outcome.value)
    /\ idx' = idx + 1
    /\ UNCHANGED << pc, text_results, media, vid_result, itemFrame >>

\* lines 104-110: the loop over image_files is exhausted; the glob of
\* "<username>_*.mp4" lists the videos, in some order
EndImageLoop ==
    /\ pc = "ImageLoop"
    /\ idx = Len(image_files)
    /\ video_files' \in
           Listings({ video \in Videos : /\ video.file \in media
                                         /\ glob_match(username, video.file, "mp4") })
    /\ pc' = "VideoLoop"
    /\ idx' = 0
    /\ UNCHANGED << collectVars, media, vid_result, df, image_files >>
    /\ UNCHANGED << summary, reputation_score, results, brand_fits, brand_files,
                    analyzer, brands_dir, imageVars, fileVars, config, warned,
                    batch, attempted, username, csv, stage_log, raised,
                    population, saved, runVars, CLEANUP_MODE >>

\* variant: the exception of analyze_video leaves analyze_influencer_posts
VideoIteration_propagates ==
    /\ pc = "VideoLoop"
    /\ idx < Len(video_files)
    /\ LET outcome == analyze_video(image_analyzer, video_files[idx + 1])
       IN  IF outcome.raised
           THEN pc' = "Raised" /\ UNCHANGED << idx, vid_result >>
           ELSE pc' = "Video" /\ vid_result' = outcome.value /\ UNCHANGED idx
    /\ UNCHANGED << collectVars, media, itemFrame >>

\* lines 113-116 and 149-151: an iteration of the loop over video_files
\* begins with analyze_video; when it raises the handler logs and the loop
\* continues
VideoIteration ==
    /\ pc = "VideoLoop"
    /\ idx < Len(video_files)
    /\ LET outcome == analyze_video(image_analyzer, video_files[idx + 1])
       IN  IF outcome.raised
           THEN pc' = "VideoLoop" /\ idx' = idx + 1 /\ UNCHANGED vid_result
           ELSE pc' = "Video" /\ vid_result' = outcome.value /\ UNCHANGED idx
    /\ UNCHANGED << collectVars, media, itemFrame >>

\* lines 118-147: the rest of the iteration; the text analysis of the audio
\* is appended to text_results, the frame analysis is appended to
\* image_results as one entry, and the file is deleted when CLEANUP_MODE is
\* "immediate"
VideoIntegration ==
    /\ pc = "Video"
    /\ LET vid_path == video_files[idx + 1].file
           aa == vid_result.audio_analysis
           fa == vid_result.frame_analysis
       IN  /\ text_results' =
                  IF aa # None /\ aa.text_analysis # None
                  THEN Append(text_results,
                              aa.text_analysis
                                  @@ [ spam_score |-> aa.spam_detection.spam_score,
                                       post_id |-> vid_path.stem ])
                  ELSE text_results
           /\ image_results' =
                  IF fa # None
                  THEN Append(image_results,
                              [ image_path |-> "path",
                                nsfw_score |-> fa.avg_nsfw_score,
                                is_nsfw    |-> flag_by_max(fa),
                                safe_score |-> One - fa.avg_nsfw_score ])
                  ELSE image_results
           /\ media' = IF CLEANUP_MODE = "immediate"
                       THEN cleanup_file(media, vid_path)
                       ELSE media
    /\ idx' = idx + 1
    /\ vid_result' = Unbound
    /\ pc' = "VideoLoop"
    /\ UNCHANGED itemFrame

\* the loop over video_files is exhausted
EndVideoLoop ==
    /\ pc = "VideoLoop"
    /\ idx = Len(video_files)
    /\ pc' = "Videos"
    /\ UNCHANGED << collectVars, media, idx, vid_result, itemFrame >>

NextItems ==
    \/ ReadCsv
    \/ TextIteration
    \/ EndTextLoop
    \/ ImageIteration
    \/ EndImageLoop
    \/ VideoIteration
    \/ VideoIntegration
    \/ EndVideoLoop
    \/ Aggregate
    \/ Next
    \/ Save

\* line 224: the loop over the brand files takes the next file; this is the
\* part of FitBrand that decides whether the loop goes on
NextBrandFile ==
    /\ pc = "FitAllBrands"
    /\ brand_files # << >>
    /\ brand_files' = Tail(brand_files)

\* the steps of NextItems outside the loop over the brand files
StraightLine ==
    \/ ReadCsv \/ TextIteration \/ EndTextLoop
    \/ ImageIteration \/ EndImageLoop
    \/ VideoIteration \/ VideoIntegration \/ EndVideoLoop
    \/ Aggregate \/ Score \/ Return \/ Save

\* analyze_influencer_posts and main run on: the interpreter executes the
\* next statement, and every loop takes its next item
SpecItems ==
    /\ InitItems /\ [][NextItems]_vars
    /\ WF_vars(StraightLine) /\ WF_brand_files(NextBrandFile)

-----------------------------------------------------------------------------
(* The batch *)

\* the stages of main, as a set
Stages == { StageNames[i] : i \in DOMAIN StageNames }

\* the creator has been dealt with: a stage raised, or the analysis returned
\* nothing, or the last stage was completed
DealtWith(u) ==
    \/ \E stage \in Stages : << u, stage >> \in raised
    \/ << u, "Analyze" >> \in stage_log /\ u \notin csv
    \/ << u, "Cleanup" >> \in stage_log

\* what holds in every state of the batch
C16_Caught ==
    /\ \A u \in Creators, stage \in Stages :
           << u, stage >> \in raised =>
               /\ \A later \in Stages :
                      StageIndex(later) >= StageIndex(stage)
                          => << u, later >> \notin stage_log
               /\ (StageIndex(stage) <= StageIndex("Save") => u \notin saved)
    /\ Len(attempted) <= Len(batch)
    /\ \A i \in DOMAIN attempted : attempted[i] = batch[i]
    /\ (pc = "Complete" =>
           /\ attempted = batch
           /\ \A i \in DOMAIN batch : DealtWith(batch[i]))

\* C16: an exception raised in any stage of main for one creator is caught
\* by main: no later stage of that creator runs, every remaining creator of
\* the batch is still processed, and main terminates after it has attempted
\* every creator of the batch.
C16_BatchContinues == [] C16_Caught /\ <>(pc = "Complete")

\* C16 witness: main is over; the first of three creators raised in the
\* analysis, the second in the cleanup, and the third was saved
C16_Witness ==
    /\ pc = "Complete"
    /\ Len(batch) = 3
    /\ << batch[1], "Analyze" >> \in raised
    /\ << batch[2], "Cleanup" >> \in raised
    /\ batch[3] \in saved /\ << batch[3], "Cleanup" >> \in stage_log

\* C18 as stated: a configuration error (API token absent, or a weight
\* group not summing to 1.0) blocks the process at its start: when
\* validate_config fails, no creator reaches the Preprocess stage.
C18_Blocking ==
    validate_config(config).raised =>
        /\ attempted = << >>
        /\ pc \notin Stages
        /\ stage_log = {}

\* C20 as stated: for two distinct creators u and w on disk, the one's
\* handle being the other's followed by "_" and more characters included,
\* no image or video downloaded for w's posts is in the population analysed
\* for u.
C20_Independent ==
    \A entry \in population : entry[2].owner = entry[1]

-----------------------------------------------------------------------------
(* The order of the stages *)

\* the order in which the stages of one creator are stated to run
RunOrder ==
    << "Preprocess", "Media", "AnalyzeText", "AnalyzeImages", "AnalyzeVideos",
       "Aggregate", "Score", "FitAllBrands", "Save", "Cleanup" >>

\* the positions of the program inside the loop body of main
InCreator == Stages \cup { RunOrder[i] : i \in DOMAIN RunOrder }

\* the stages of the order that creator u has completed
Completed(u) == { i \in DOMAIN RunOrder : << u, RunOrder[i] >> \in stage_log }

\* what holds in every state: the stages a creator has completed are an
\* initial segment of the order, the stage about to run has not run for
\* that creator, a result is saved only after the brand loop and the
\* cleanup runs only after the save, and only the creator the loop is at
\* can be inside its stages
C21_Ordered ==
    /\ \A u \in Creators :
           LET done == Completed(u)
           IN  /\ \A i \in done : i = 1 \/ (i - 1) \in done
               /\ (u \in saved => << u, "FitAllBrands" >> \in stage_log)
               /\ (<< u, "Cleanup" >> \in stage_log => u \in saved)
               /\ (done # {} => \E i \in DOMAIN attempted : attempted[i] = u)
    /\ (pc \in InCreator =>
           /\ username = attempted[Len(attempted)]
           /\ << username, pc >> \notin stage_log
           /\ LET done == Completed(username)
              IN  \A i \in DOMAIN RunOrder :
                      RunOrder[i] = pc => done = 1..(i - 1))

\* what holds of every step: a step completes at most the stage the program
\* is at, for the creator the loop is at, and leaves the stages of the
\* other creators as they are; from a stage the program goes to the next
\* stage of the order or back to the loop
C21_Step ==
    /\ \A entry \in stage_log' \ stage_log :
           /\ entry[1] = username
           /\ entry[2] \in {pc, "Analyze"}
    /\ stage_log \subseteq stage_log'
    /\ \A i \in DOMAIN RunOrder :
           (pc = RunOrder[i] /\ pc' # pc) =>
               \/ pc' = "Loop"
               \/ i < Len(RunOrder) /\ pc' = RunOrder[i + 1]
               \/ pc = "Media" /\ pc' = "Analyze"
    /\ (pc = "Analyze" /\ pc' # pc => pc' \in {"AnalyzeText", "Loop"})
    /\ (pc \in InCreator /\ pc' \in InCreator => username' = username)

\* C21: for each creator main executes the stages in the order Preprocess,
\* EnsureMedia (or its skip), AnalyzeText, AnalyzeImages, AnalyzeVideos,
\* Aggregate, Score, FitAllBrands, Persist, Cleanup; no stage runs twice for
\* one creator in one run, Persist comes after FitAllBrands and before the
\* cleanup of stage 4, and the stages of two creators never interleave.
C21_StageOrder == [] C21_Ordered /\ [][C21_Step]_vars

\* C21 witness: main is over and both creators of a batch of two went
\* through all ten stages
C21_Witness ==
    /\ pc = "Complete"
    /\ Len(batch) = 2
    /\ \A i \in DOMAIN batch : Completed(batch[i]) = DOMAIN RunOrder

-----------------------------------------------------------------------------
(* The download of the media *)

\* stage 2 of the creator the loop is at is executed by this step
EnsureMedia == pc = "Media" /\ pc' = "Analyze"

\* C22 as stated: the download stage for creator u is skipped exactly when
\* at least one image or video file of creator u already exists on disk;
\* media files that belong only to other creators do not cause u's download
\* to be skipped.
C22_SkippedOnOwnMedia ==
    [][ EnsureMedia =>
            (username \notin downloads' <=> \E f \in media : f.owner = username)
      ]_vars

\* C26 as stated: whenever main runs the downloader in stage 2 for creator
\* u, u's posts JSON file is among the files the downloader reads, so that
\* (downloads succeeding) every image and video referenced by u's posts is
\* on disk when u's AnalyzeImages stage begins.
C26_OwnPostsDownloaded ==
    [][ (EnsureMedia /\ username \in downloads') =>
            /\ username \in cwd
            /\ FilesOf({username}) \subseteq media'
      ]_vars

\* C27 as stated: in a batch of several creators, the cleanup of stage 4
\* executed after one creator deletes no video file that belongs to a
\* creator not yet analysed in the same batch.
C27_LaterVideosKept ==
    [][ (pc = "Cleanup" /\ pc' = "Loop") =>
            \A f \in media \ media' :
                \A i \in (Len(attempted) + 1)..Len(batch) : f.owner # batch[i]
      ]_vars

-----------------------------------------------------------------------------
(* Files left by earlier runs *)

\* C28 as stated: the posts preprocessed for creator u in a run are the
\* contents of the u_posts.json file found in the working directory at the
\* start of that run, and after the run that file is no longer in the
\* working directory, also when a raw copy with the same name already
\* exists in the raw-data directory from an earlier run.
C28_WorkingDirectoryPosts ==
    /\ \A p \in preprocessed : p.origin = "working directory"
    /\ (pc = "Complete" => \A p \in preprocessed : p.username \notin cwd)

\* C29 as stated: if preprocessing of a creator's posts file yields zero
\* valid posts in a run, no analysis result is persisted for that creator
\* in that run, also when a processed CSV for the same creator is left on
\* disk from an earlier run.
C29_NothingSavedWithoutPosts ==
    \A p \in preprocessed : ~ p.valid => p.username \notin saved

-----------------------------------------------------------------------------
(* The loops over the items of one creator *)

\* the iterations of the loop over video_files that are over
VideosIterated ==
    IF pc \in {"ReadCsv", "TextLoop", "ImageLoop"} THEN 0
    ELSE IF pc \in {"VideoLoop", "Video"} THEN idx
    ELSE Len(video_files)

\* what holds in every state: in the mode "immediate" a video whose
\* iteration is over is gone if its analysis returned, and every other
\* video is on disk; in another mode every video is on disk
C23_Deleted ==
    \A k \in DOMAIN video_files :
        LET video == video_files[k]
        IN  video.file \notin media
                <=> /\ CLEANUP_MODE = "immediate"
                    /\ k <= VideosIterated
                    /\ ~ video.raises

\* what holds of every step: a file is deleted only by the iteration of the
\* video that has just been analysed, and it is that video
C23_Deletion ==
    media' # media =>
        /\ pc = "Video" /\ vid_result # Unbound
        /\ media' = media \ { video_files[idx + 1].file }

RowsIterated == IF pc = "TextLoop" THEN idx ELSE Len(df)
ImagesIterated ==
    IF pc \in {"ReadCsv", "TextLoop"} THEN 0
    ELSE IF pc = "ImageLoop" THEN idx
    ELSE Len(image_files)

RECURSIVE PostIds(_, _)
\* the ids of the rows among the first n that have text and whose analysis
\* returned
PostIds(rows, n) ==
    IF n = 0 THEN << >>
    ELSE PostIds(rows, n - 1)
             \o (IF rows[n].text /\ ~ rows[n].raises
                 THEN << rows[n].post_id >> ELSE << >>)

RECURSIVE SpeechIds(_, _)
\* the names of the videos among the first n that have speech and whose
\* analysis returned
SpeechIds(videos, n) ==
    IF n = 0 THEN << >>
    ELSE SpeechIds(videos, n - 1)
             \o (IF videos[n].audio = "speech" /\ ~ videos[n].raises
                 THEN << videos[n].file.stem >> ELSE << >>)

RECURSIVE ImageScores(_, _)
\* the scores of the images among the first n whose analysis returned
ImageScores(images, n) ==
    IF n = 0 THEN << >>
    ELSE ImageScores(images, n - 1)
             \o (IF ~ images[n].raises
                 THEN << images[n].inference.score >> ELSE << >>)

\* the videos among the first n that have frames and whose analysis returned
Filmed(videos, n) ==
    { k \in 1..n : videos[k].frames # << >> /\ ~ videos[k].raises }

\* what holds in every state: text_results holds one entry for each row
\* with text whose analysis returned and one for each video with speech
\* whose analysis returned, image_results one entry for each image whose
\* analysis returned and one for each video with frames whose analysis
\* returned, in the order of the iterations; nothing has left
\* analyze_influencer_posts as an exception
C24_Signals ==
    /\ pc # "Raised"
    /\ pc \in {"TextLoop", "ImageLoop", "VideoLoop", "Video", "Videos"} =>
           [ i \in DOMAIN text_results |-> text_results[i].post_id ]
               = PostIds(df, RowsIterated)
                     \o SpeechIds(video_files, VideosIterated)
    /\ pc \in {"ImageLoop", "VideoLoop", "Video", "Videos"} =>
           LET scores == ImageScores(image_files, ImagesIterated)
           IN  /\ Len(image_results) =
                      Len(scores)
                          + Cardinality(Filmed(video_files, VideosIterated))
               /\ \A i \in DOMAIN scores :
                      image_results[i].nsfw_score = scores[i]
    /\ (Aggregated =>
           summary.images_analyzed =
               Len(ImageScores(image_files, Len(image_files)))
                   + Cardinality(Filmed(video_files, Len(video_files))))

RECURSIVE FrameSum(_)
FrameSum(frames) ==
    IF frames = << >> THEN 0 ELSE Head(frames) + FrameSum(Tail(frames))

\* the visual signal of the video whose analysis has returned: its score
\* is the mean of the scores of the frames, its flag is set exactly when a
\* frame scores above 0.7
IsVisualSignalOf(signal, frames) ==
    /\ signal.nsfw_score * Len(frames) = FrameSum(frames)
    /\ signal.is_nsfw <=> (\E i \in DOMAIN frames : frames[i] > 7000)

\* a step that integrates the analysis of a video appends one visual signal
\* for a video with frames and none for a video without
C25_Step ==
    pc = "Video" =>
        LET frames == video_files[idx + 1].frames
        IN  IF frames # << >>
            THEN /\ Len(image_results') = Len(image_results) + 1
                 /\ SubSeq(image_results', 1, Len(image_results)) = image_results
                 /\ IsVisualSignalOf(image_results'[Len(image_results')], frames)
            ELSE image_results' = image_results

\* C25: each analysed video with at least one extracted frame adds exactly
\* one visual signal whose nsfw_score is the mean of its frame scores and
\* whose is_nsfw flag is true exactly when the maximum frame score exceeds
\* 0.7, regardless of the mean; 0.7 is a literal of its own, not the
\* per-image NSFW threshold (which is 0.7 unless NSFW_THRESHOLD is set).  A
\* video with no frames adds no visual signal.
C25_VideoSignal == [][C25_Step]_vars

\* C25 witness: a video without frames has added no visual signal, and the
\* video with the frames 0.12 and 0.72 has added one of score 0.42, below
\* 0.7, that is flagged
C25_Witness ==
    /\ pc = "VideoLoop" /\ idx = 2 /\ Len(video_files) = 2
    /\ video_files[1].frames = << >> /\ ~ video_files[1].raises
    /\ video_files[2].frames = << 1200, 7200 >>
    /\ Len(image_results) = Len(ImageScores(image_files, Len(image_files))) + 1
    /\ image_results[Len(image_results)].nsfw_score = 4200
    /\ image_results[Len(image_results)].is_nsfw

\* C25 as first stated: in addition, the threshold of the videos is
\* stricter than, so different from, the threshold of the images
C25_Original ==
    [][C25_Step /\ (pc = "Video" => 7000 # image_analyzer.threshold)]_vars

-----------------------------------------------------------------------------
(* The persisted rating and the persisted score *)

\* a result file has been written
Persisted == results_file # Unbound

\* C30: in every persisted result the rating is get_rating of the persisted
\* (2-decimal) reputation_score, also for a summary whose unrounded score
\* lies just below a rating boundary
C30_RatingOfWrittenScore ==
    Persisted =>
        LET doc == json_load(results_file)
        IN  doc.rating = get_rating(doc.reputation_score)

=============================================================================
